---------------------------- MODULE Spec2Model ----------------------------
(***************************************************************************)
(* ascii-waves: the wave engine (public/js/wave-engine.js) with the tables  *)
(* of its noise field (public/js/noise.js), the canvas renderer with its   *)
(* animation-frame loop (renderer.js), the helpers of public/js/utils.js,  *)
(* and the control panel with its storage, files and share URLs            *)
(* (public/js/controls.js, export.js, presets.js, main.js), as one state   *)
(* machine.                                                                *)
(*                                                                         *)
(* Numbers.  A JavaScript number is modelled as a record                   *)
(*   [k |-> "fin", n |-> numerator, d |-> denominator > 0]  (lowest terms) *)
(* or one of NaN, PInf, NInf, with the IEEE-754 rules for the operations   *)
(* the code uses (x/0, 0/0, comparisons with NaN, Math.min/max/floor/      *)
(* ceil/round, %).  Finite arithmetic is exact: binary rounding and the    *)
(* sign of zero are not modelled.                                          *)
(***************************************************************************)
EXTENDS Integers, Sequences, FiniteSets, TLC

VARIABLES
    waveEngine,   \* the WaveEngine: [config, time, noise, currentCharacterSet]
    renderer,     \* the Renderer: [config, gridWidth, gridHeight, lastTime, animationId]
    canvas,       \* the canvas element: [width, height]
    win,          \* window.innerWidth / innerHeight: [width, height]
    resizeTimer,  \* TRUE while the debounced resize listener has a timeout pending
    pending,      \* animation-frame requests not yet run or cancelled: [h, at]
    nextHandle,   \* the handle the next requestAnimationFrame call returns
    now,          \* the host clock, in milliseconds
    pc,           \* position of the callback on the stack ("idle": the stack is empty)
    cell,         \* loop variables of render: [layer, gridY, gridX]
    frame,        \* the frame being rendered: clock reads, and the cells visited
                  \* since the canvas was cleared (drawn: fillText was called)
    lastOp,       \* the last operation: [op, arg, ret]
    held,         \* an object a caller got from getConfig(): [ref, obj]
    localStorage, \* the item 'asciiWavesConfig' of window.localStorage: a text
    exported,     \* the last downloaded file and the last share URL's hash: texts
    loading,      \* loadJSON suspended at await file.text(): [active, text]
    notification, \* the element #notification and its removal timers:
                  \* [message, type, show, age, timers]
    saved         \* history: the configuration when each text was written

\* the page around the canvas: storage, files, notices
page == <<held, localStorage, exported, loading, notification, saved>>

vars == <<waveEngine, renderer, canvas, win, resizeTimer, pending, nextHandle,
          now, pc, cell, frame, lastOp, held, localStorage, exported, loading,
          notification, saved>>

-----------------------------------------------------------------------------
(* JavaScript numbers *)

Abs(i) == IF i < 0 THEN -i ELSE i

RECURSIVE GCD(_, _)
GCD(a, b) == IF b = 0 THEN a ELSE GCD(b, a % b)

Fin(n, d) ==
    LET g == GCD(Abs(n), d)
    IN  [k |-> "fin", n |-> n \div g, d |-> d \div g]

Num(i) == [k |-> "fin", n |-> i, d |-> 1]
NaN  == [k |-> "nan",  n |-> 0, d |-> 1]
PInf == [k |-> "pinf", n |-> 0, d |-> 1]
NInf == [k |-> "ninf", n |-> 0, d |-> 1]

IsNaN(x)    == x.k = "nan"
IsFinite(x) == x.k = "fin"
IsInteger(x) == x.k = "fin" /\ x.d = 1

Sign(x) ==
    CASE x.k = "pinf" -> 1
      [] x.k = "ninf" -> -1
      [] x.k = "nan"  -> 0
      [] OTHER        -> IF x.n > 0 THEN 1 ELSE IF x.n < 0 THEN -1 ELSE 0

Signed(s) == IF s > 0 THEN PInf ELSE NInf

Neg(x) ==
    CASE x.k = "fin"  -> [x EXCEPT !.n = -x.n]
      [] x.k = "pinf" -> NInf
      [] x.k = "ninf" -> PInf
      [] OTHER        -> NaN

Add(x, y) ==
    CASE IsNaN(x) \/ IsNaN(y)          -> NaN
      [] IsFinite(x) /\ IsFinite(y)    -> Fin(x.n * y.d + y.n * x.d, x.d * y.d)
      [] IsFinite(x)                   -> y
      [] IsFinite(y)                   -> x
      [] OTHER                         -> IF x.k = y.k THEN x ELSE NaN

Sub(x, y) == Add(x, Neg(y))

Mul(x, y) ==
    CASE IsNaN(x) \/ IsNaN(y)          -> NaN
      [] IsFinite(x) /\ IsFinite(y)    -> Fin(x.n * y.n, x.d * y.d)
      [] Sign(x) = 0 \/ Sign(y) = 0    -> NaN
      [] OTHER                         -> Signed(Sign(x) * Sign(y))

Div(x, y) ==
    CASE IsNaN(x) \/ IsNaN(y)          -> NaN
      [] IsFinite(x) /\ IsFinite(y)    ->
            IF y.n = 0
            THEN IF x.n = 0 THEN NaN ELSE Signed(Sign(x))
            ELSE Fin(Sign(y) * x.n * y.d, x.d * Abs(y.n))
      [] IsFinite(x)                   -> Num(0)
      [] IsFinite(y)                   -> Signed(Sign(x) * (IF Sign(y) < 0 THEN -1 ELSE 1))
      [] OTHER                         -> NaN

Lt(x, y) ==
    CASE IsNaN(x) \/ IsNaN(y)          -> FALSE
      [] IsFinite(x) /\ IsFinite(y)    -> x.n * y.d < y.n * x.d
      [] OTHER                         -> x # y /\ (x.k = "ninf" \/ y.k = "pinf")

Gt_orEqual(x, y) == Lt(y, x) \/ (x = y /\ ~IsNaN(x))
Gt(x, y) == Lt(y, x)
Le(x, y) == ~IsNaN(x) /\ ~IsNaN(y) /\ ~Lt(y, x)
Ge(x, y) == Le(y, x)

MathMin(x, y) == IF IsNaN(x) \/ IsNaN(y) THEN NaN ELSE IF Lt(y, x) THEN y ELSE x
MathMax(x, y) == IF IsNaN(x) \/ IsNaN(y) THEN NaN ELSE IF Lt(x, y) THEN y ELSE x

MathFloor(x) == IF IsFinite(x) THEN Num(x.n \div x.d) ELSE x
MathCeil(x)  == Neg(MathFloor(Neg(x)))
MathRound(x) == MathFloor(Add(x, Fin(1, 2)))
MathTrunc(x) == IF Sign(x) < 0 THEN MathCeil(x) ELSE MathFloor(x)

\* The JavaScript remainder x % y: the result has the sign of x.
Rem(x, y) ==
    CASE IsNaN(x) \/ IsNaN(y)          -> NaN
      [] ~IsFinite(x)                  -> NaN
      [] ~IsFinite(y)                  -> x
      [] y.n = 0                       -> NaN
      [] OTHER                         -> Sub(x, Mul(y, MathTrunc(Div(x, y))))

-----------------------------------------------------------------------------
(* JavaScript objects: a record of own properties is a function on its keys *)

Undefined == [k |-> "undefined", n |-> 0, d |-> 1]

Empty == [key \in {} |-> Undefined]

Has(obj, key) == key \in DOMAIN obj

\* obj.key, for an object whose prototype holds no such key
Get(obj, key) == IF key \in DOMAIN obj THEN obj[key] ELSE Undefined

\* Object.assign with its arguments' roles exchanged: a property the target
\* already has keeps its value
ObjectAssign_keepsTarget(target, source) ==
    [key \in DOMAIN target \cup DOMAIN source |->
        IF key \in DOMAIN target THEN target[key] ELSE source[key]]

ObjectAssign(target, source) ==
    [key \in DOMAIN target \cup DOMAIN source |->
        IF key \in DOMAIN source THEN source[key] ELSE target[key]]

\* Property names every object literal inherits from Object.prototype.
ObjectPrototypeKeys ==
    {"constructor", "__proto__", "toString", "toLocaleString", "valueOf",
     "hasOwnProperty", "isPrototypeOf", "propertyIsEnumerable"}

-----------------------------------------------------------------------------
(* Utils (public/js/utils.js) *)

clamp_unbounded(value, min, max) == value

clamp(value, min, max) == MathMax(min, MathMin(max, value))

-----------------------------------------------------------------------------
(* SimplexNoise (public/js/noise.js): the permutation tables *)

TableSize == 256

NoiseSeed_ignored(seed, random) == random

\* constructor(seed = Math.random()), with Math.random() having produced `random`
NoiseSeed(seed, random) == IF seed = Undefined THEN random ELSE seed

\* seededRandom(seed): one call of the function it returns.  The seed is the
\* fraction s.a / s.d.  The remainder has the sign of seed * 9301 + 49297, as
\* JavaScript's % has; seed * 9301 is reduced modulo 233280 in two steps, each
\* within the range of an integer.
seededRandom(s) ==
    LET m        == 233280 * s.d
        r        == s.a % m
        residue  == ((((r * 93) % m) * 100) + r + 49297 * s.d) % m
        negative == s.a < 0 - ((49297 * s.d) \div 9301)
    IN  [a |-> IF negative /\ residue # 0 THEN residue - m ELSE residue,
         d |-> s.d]

\* Math.floor(random() * (i + 1)), random() being seed / 233280
ShuffleIndex(s, i) == (s.a * (i + 1)) \div (233280 * s.d)

\* one pass of the Fisher-Yates loop body at index i: draw j, then
\* [p[i], p[j]] = [p[j], p[i]].  Outside 0..255 the Uint8Array reads undefined,
\* which it stores as 0, and ignores the write.
ShuffleStep(st, i) ==
    LET next == seededRandom(st.seed)
        j    == ShuffleIndex(next, i)
    IN  [p    |-> IF j \in DOMAIN st.p
                  THEN [st.p EXCEPT ![i] = st.p[j], ![j] = st.p[i]]
                  ELSE [st.p EXCEPT ![i] = 0],
         seed |-> next]

\* what a pass leaves behind: bytes in the Uint8Array, a seed within 233280
\* of zero.  Reading it settles the pass before the next one begins, as the
\* loop does.
Shuffled(st, i) ==
    /\ st.p[i] \in 0..(TableSize - 1)
    /\ st.seed.a \in (1 - 233280 * st.seed.d)..(233280 * st.seed.d - 1)

\* the loop's passes from index i down to stop + 1
RECURSIVE ShuffleRun(_, _, _)
ShuffleRun(st, i, stop) ==
    IF i <= stop THEN st
    ELSE LET swapped == ShuffleStep(st, i)
         IN  IF Shuffled(swapped, i) THEN ShuffleRun(swapped, i - 1, stop)
             ELSE swapped

\* the Fisher-Yates loop, for (i = 255; i > 0; i--), taken ShuffleBlock passes
\* at a time
ShuffleBlock == 16

RECURSIVE Shuffle(_, _)
Shuffle(st, i) ==
    IF i <= 0 THEN st
    ELSE LET stop == IF i > ShuffleBlock THEN i - ShuffleBlock ELSE 0
             run  == ShuffleRun(st, i, stop)
         IN  IF Shuffled(run, stop + 1) THEN Shuffle(run, stop) ELSE run

\* the tables of new SimplexNoise(seed)
SimplexNoise_tables(seed, random) ==
    LET given == NoiseSeed(seed, random)
        p     == Shuffle([p    |-> [i \in 0..(TableSize - 1) |-> i],
                          seed |-> [a |-> given.n, d |-> given.d]],
                         TableSize - 1).p
        perm  == [i \in 0..(2 * TableSize - 1) |-> p[i % TableSize]]
    IN  [p         |-> p,
         perm      |-> perm,
         permMod12 |-> [i \in 0..(2 * TableSize - 1) |-> perm[i] % 12]]

\* this.F3 = 1.0 / 3.0 and this.G3 = 1.0 / 6.0
F3 == Fin(1, 3)
G3 == Fin(1, 6)

\* A double has a largest finite value, beyond which a sum or a product is an
\* infinity.  MaxDouble stands for it, scaled down.
MaxDouble == 1000
Double(x) ==
    IF IsFinite(x) /\ Abs(x.n) > MaxDouble * x.d THEN Signed(Sign(x)) ELSE x

\* undefined read as a number
ToNumber(v) == IF v = Undefined THEN NaN ELSE v

\* i % 256, whose result has the sign of i, in place of i & 255
BitAnd255_remainder(i) == IF IsFinite(i) THEN Rem(i, Num(256)).n ELSE 0

\* i & 255: ToInt32 reduces a finite integer modulo 2^32 and takes NaN and the
\* infinities to 0; the low eight bits are those of the two's complement
BitAnd255(i) == IF IsFinite(i) THEN (i.n \div i.d) % 256 ELSE 0

\* table[index] of a typed array: undefined outside its length and for an
\* index that is no integer
TableRead(table, index) ==
    IF IsInteger(index) /\ index.n \in DOMAIN table
    THEN Num(table[index.n])
    ELSE Undefined

\* the offsets (i1, j1, k1) and (i2, j2, k2) of the second and third corner,
\* chosen by the order of x0, y0, z0
SimplexOffsets(x0, y0, z0) ==
    LET Corner(a, b, c) == [i |-> a, j |-> b, k |-> c]
    IN  IF Ge(x0, y0)
        THEN IF Ge(y0, z0) THEN <<Corner(1, 0, 0), Corner(1, 1, 0)>>
             ELSE IF Ge(x0, z0) THEN <<Corner(1, 0, 0), Corner(1, 0, 1)>>
             ELSE <<Corner(0, 0, 1), Corner(1, 0, 1)>>
        ELSE IF Lt(y0, z0) THEN <<Corner(0, 0, 1), Corner(0, 1, 1)>>
             ELSE IF Lt(x0, z0) THEN <<Corner(0, 1, 0), Corner(0, 1, 1)>>
             ELSE <<Corner(0, 1, 0), Corner(1, 1, 0)>>

\* this.permMod12[ii + a + this.perm[jj + b + this.perm[kk + c]]]: the three
\* indices read, innermost first, and the gradient index found
GradientIndex(noise, ii, jj, kk, a, b, c) ==
    LET inner  == Num(kk + c)
        middle == Add(Num(jj + b), ToNumber(TableRead(noise.perm, inner)))
        outer  == Add(Num(ii + a), ToNumber(TableRead(noise.perm, middle)))
    IN  [reads |-> <<inner, middle, outer>>,
         gi    |-> TableRead(noise.permMod12, outer)]

\* noise3D(xin, yin, zin) up to its table lookups: the skewed cell (i, j, k),
\* the offsets of the simplex corners, and gi0..gi3 with the indices read for
\* them.  The sum of the corner contributions is not computed.
noise3D(noise, xin, yin, zin) ==
    LET s   == Double(Mul(Double(Add(Double(Add(xin, yin)), zin)), F3))
        i   == MathFloor(Double(Add(xin, s)))
        j   == MathFloor(Double(Add(yin, s)))
        k   == MathFloor(Double(Add(zin, s)))
        t   == Double(Mul(Double(Add(Double(Add(i, j)), k)), G3))
        x0  == Double(Sub(xin, Double(Sub(i, t))))
        y0  == Double(Sub(yin, Double(Sub(j, t))))
        z0  == Double(Sub(zin, Double(Sub(k, t))))
        off == SimplexOffsets(x0, y0, z0)
        ii  == BitAnd255(i)
        jj  == BitAnd255(j)
        kk  == BitAnd255(k)
    IN  [cell    |-> <<i, j, k>>,
         ii      |-> ii,
         jj      |-> jj,
         kk      |-> kk,
         offsets |-> off,
         corners |-> <<GradientIndex(noise, ii, jj, kk, 0, 0, 0),
                       GradientIndex(noise, ii, jj, kk,
                                     off[1].i, off[1].j, off[1].k),
                       GradientIndex(noise, ii, jj, kk,
                                     off[2].i, off[2].j, off[2].k),
                       GradientIndex(noise, ii, jj, kk, 1, 1, 1)>>]

-----------------------------------------------------------------------------
(* WaveEngine (public/js/wave-engine.js) *)

\* A SimplexNoise instance: the seed it was built from, and a serial number
\* that tells one construction from the next.
SimplexNoise(seed, serial) == [seed |-> seed, inst |-> serial]

WaveKeys == {"amplitude", "speed", "frequency", "layers", "choppiness",
             "foamThreshold", "depthEffect", "noiseSeed", "timeSpeed"}

\* Glyphs are Unicode code points; 32 is the space character.
characterSets ==
    [classic |->
        [sky     |-> <<32, 46, 183, 729>>,
         surface |-> <<126, 8776, 8764, 8779>>,
         shallow |-> <<45, 61, 8801>>,
         medium  |-> <<9617, 9618, 9619>>,
         deep    |-> <<9608, 9632, 9646>>,
         foam    |-> <<42, 8251, 10022, 10033, 8258>>],
     minimal |->
        [sky     |-> <<32, 32, 46, 46>>,
         surface |-> <<126, 126, 45, 45>>,
         shallow |-> <<45, 45, 61, 61>>,
         medium  |-> <<61, 61, 35, 35>>,
         deep    |-> <<35, 35, 64, 64>>,
         foam    |-> <<42, 42, 43, 43, 111>>],
     dense |->
        [sky     |-> <<32, 183, 729, 8901>>,
         surface |-> <<8776, 8765, 8764, 8779, 8771>>,
         shallow |-> <<9601, 9602, 9603, 9604>>,
         medium  |-> <<9605, 9606, 9607, 9608>>,
         deep    |-> <<9608, 9619, 9618, 9617>>,
         foam    |-> <<10022, 10023, 10038, 10039, 10040, 10041>>],
     unicode |->
        [sky     |-> <<32, 8729, 183, 8901, 8226>>,
         surface |-> <<12316, 65374, 8767, 8776, 8779>>,
         shallow |-> <<9135, 9148, 9644, 9552>>,
         medium  |-> <<9617, 9618, 9619, 9608>>,
         deep    |-> <<9608, 9609, 9610, 9611, 9612>>,
         foam    |-> <<8277, 8251, 10018, 10019, 10020, 10021>>]]

Bands == {"sky", "surface", "shallow", "medium", "deep", "foam"}

\* What the property read this.characterSets[setName] yields: a palette (an own
\* property of the literal), a member of Object.prototype (inherited by the
\* literal, and truthy), or undefined.
CharacterSetLookup(setName) ==
    IF setName \in DOMAIN characterSets THEN "palette"
    ELSE IF setName \in ObjectPrototypeKeys THEN "inherited"
    ELSE "undefined"

\* constructor(config = {}), with Math.random() having produced `seed`
WaveEngine(seed) ==
    [config |->
        [amplitude     |-> Fin(4, 5),
         speed         |-> Num(1),
         frequency     |-> Fin(3, 2),
         layers        |-> Num(3),
         choppiness    |-> Fin(3, 10),
         foamThreshold |-> Fin(7, 10),
         depthEffect   |-> Fin(1, 2),
         noiseSeed     |-> Num(seed),
         timeSpeed     |-> Fin(3, 2)],
     time  |-> Num(0),
     noise |-> SimplexNoise(Num(seed), 1),
     currentCharacterSet |-> "classic"]

\* updateConfig without the test for a given seed: every call rebuilds the noise
WaveEngine_updateConfig_rebuilds(eng, newConfig) ==
    LET merged == ObjectAssign(eng.config, newConfig)
    IN  [eng EXCEPT
            !.config = merged,
            !.noise  = SimplexNoise(merged.noiseSeed, eng.noise.inst + 1)]

\* updateConfig building the noise from the seed held before the merge
WaveEngine_updateConfig_staleSeed(eng, newConfig) ==
    [eng EXCEPT
        !.config = ObjectAssign(eng.config, newConfig),
        !.noise  = IF Get(newConfig, "noiseSeed") # Undefined
                   THEN SimplexNoise(eng.config.noiseSeed, eng.noise.inst + 1)
                   ELSE eng.noise]

\* updateConfig that merges the partial and leaves the noise as it is
WaveEngine_updateConfig_keepsNoise(eng, newConfig) ==
    [eng EXCEPT !.config = ObjectAssign(eng.config, newConfig)]

WaveEngine_updateConfig(eng, newConfig) ==
    LET merged == ObjectAssign(eng.config, newConfig)
    IN  [eng EXCEPT
            !.config = merged,
            !.noise  = IF Get(newConfig, "noiseSeed") # Undefined
                       THEN SimplexNoise(merged.noiseSeed, eng.noise.inst + 1)
                       ELSE eng.noise]

setCharacterSet(eng, setName) ==
    IF CharacterSetLookup(setName) # "undefined"
    THEN [eng EXCEPT !.currentCharacterSet = setName]
    ELSE eng

\* calculateWave(x, y, layer).  Math.sin and noise3D are not computed: osc
\* holds the values the four sines (s1..s4) and the noise sample (nz) take at
\* (x, y, layer, time), each some number in [-1, 1].
calculateWave(eng, layer, osc) ==
    LET c == eng.config
        layerDepth     == Div(layer, MathMax(c.layers, Num(1)))
        layerAmplitude == Mul(c.amplitude, Sub(Num(1), Mul(layerDepth, Fin(3, 10))))
        w1 == Mul(osc.s1, layerAmplitude)
        w2 == Mul(Mul(osc.s2, layerAmplitude), Fin(1, 2))
        w3 == Mul(Mul(osc.s3, layerAmplitude), Fin(3, 10))
        w4 == Mul(Mul(osc.nz, c.choppiness), layerAmplitude)
        w5 == Mul(Mul(osc.s4, layerAmplitude), Fin(3, 10))
    IN  Add(Add(Add(Add(Add(Num(0), w1), w2), w3), w4), w5)

\* chars[Math.min(index, chars.length - 1)]
PickChar(band, chars, index) ==
    LET i == MathMin(index, Num(Len(chars) - 1))
    IN  IF IsInteger(i) /\ i.n >= 0 /\ i.n < Len(chars)
        THEN [kind |-> "char", band |-> band, index |-> i, ch |-> chars[i.n + 1]]
        ELSE [kind |-> "undefined", band |-> band, index |-> i, ch |-> 0]

TypeError == [kind |-> "TypeError", band |-> "", index |-> NaN, ch |-> 0]

\* the normalization without its division by 2
normalize_unhalved(eng, waveValue) ==
    clamp(Add(Div(waveValue, eng.config.amplitude), Num(1)), Num(0), Num(1))

normalize(eng, waveValue) ==
    clamp(Div(Add(Div(waveValue, eng.config.amplitude), Num(1)), Num(2)), Num(0), Num(1))

\* selectCharacter(waveValue, layer), with Math.random() having produced `random`
selectCharacter(eng, waveValue, layer, random) ==
    IF CharacterSetLookup(eng.currentCharacterSet) # "palette"
    THEN TypeError       \* charSet.foam etc. is undefined: reading .length throws
    ELSE
    LET charSet    == characterSets[eng.currentCharacterSet]
        normalized == normalize(eng, waveValue)
        Scaled(base, factor, chars) ==
            MathFloor(Mul(Mul(Sub(normalized, base), factor), Num(Len(chars))))
    IN  IF Gt(normalized, eng.config.foamThreshold) /\ Gt(waveValue, Num(0))
        THEN PickChar("foam", charSet.foam,
                 MathFloor(Mul(Add(Mul(random, Fin(3, 10)), Mul(normalized, Fin(7, 10))),
                               Num(Len(charSet.foam)))))
        ELSE IF Gt(normalized, Fin(75, 100))
        THEN PickChar("surface", charSet.surface, Scaled(Fin(75, 100), Num(4), charSet.surface))
        ELSE IF Gt(normalized, Fin(55, 100))
        THEN PickChar("shallow", charSet.shallow, Scaled(Fin(55, 100), Num(5), charSet.shallow))
        ELSE IF Gt(normalized, Fin(35, 100))
        THEN PickChar("medium", charSet.medium, Scaled(Fin(35, 100), Num(5), charSet.medium))
        ELSE IF Gt(normalized, Fin(15, 100))
        THEN PickChar("deep", charSet.deep, Scaled(Fin(15, 100), Num(5), charSet.deep))
        ELSE PickChar("sky", charSet.sky,
                 MathFloor(Mul(Mul(normalized, Fin(667, 100)), Num(Len(charSet.sky)))))

update_ignoresTimeSpeed(eng, deltaTime) ==
    [eng EXCEPT !.time = Add(eng.time, deltaTime)]

update(eng, deltaTime) ==
    [eng EXCEPT !.time = Add(eng.time, Mul(deltaTime, eng.config.timeSpeed))]

resetTime(eng) == [eng EXCEPT !.time = Num(0)]

\* An object in a caller's hands: which object it is, and the own properties
\* of an object of its own.  "copy" is an object made for the caller.
ObjectRef(ref, obj) == [ref |-> ref, obj |-> obj]

NoObject == ObjectRef("none", Empty)

\* { ...obj }: a new object with obj's own properties
Spread(obj) == ObjectRef("copy", [key \in DOMAIN obj |-> obj[key]])

\* getConfig() returning this.config itself
WaveEngine_getConfig_live(eng) == ObjectRef("waveEngine.config", eng.config)

WaveEngine_getConfig(eng) == Spread(eng.config)

-----------------------------------------------------------------------------
(* Utils.hslToRgb (public/js/utils.js) *)

\* Math.min with three arguments
MathMin3(x, y, z) == MathMin(MathMin(x, y), z)

hslToRgb(hue, s, l) ==
    LET h == Div(hue, Num(360))
        a == Mul(s, MathMin(l, Sub(Num(1), l)))
        f(n) ==
            LET k == Rem(Add(Num(n), Mul(h, Num(12))), Num(12))
            IN  Sub(l, Mul(a, MathMax(Num(-1),
                                      MathMin3(Sub(k, Num(3)), Sub(Num(9), k), Num(1)))))
    IN  <<MathRound(Mul(f(0), Num(255))),
          MathRound(Mul(f(8), Num(255))),
          MathRound(Mul(f(4), Num(255)))>>

-----------------------------------------------------------------------------
(* Renderer (renderer.js) *)

Null == [k |-> "null", n |-> 0, d |-> 1]

\* a !== b on numbers
StrictNotEqual(a, b) == IsNaN(a) \/ IsNaN(b) \/ a # b

\* if (v): a number is truthy unless it is 0 or NaN; undefined and null are not
Truthy(v) == v.k \in {"pinf", "ninf"} \/ (v.k = "fin" /\ v.n # 0)

\* resizeCanvas(): the new renderer and the new canvas
resizeCanvas(r, window) ==
    LET cv == [width |-> window.width, height |-> window.height]
    IN  [renderer |->
            [r EXCEPT
                !.gridWidth  = MathCeil(Div(cv.width, r.config.cellSize)),
                !.gridHeight = MathCeil(Div(cv.height, r.config.cellSize))],
         canvas |-> cv]

\* constructor(canvas, waveEngine), before it calls resizeCanvas()
RendererFields ==
    [config |->
        [cellSize          |-> Num(16),
         hue               |-> Num(200),
         saturation        |-> Fin(6, 10),
         brightness        |-> Num(0),
         contrast          |-> Num(1),
         vignetteIntensity |-> Fin(4, 10),
         vignetteRadius    |-> Fin(6, 10)],
     gridWidth   |-> Num(0),
     gridHeight  |-> Num(0),
     lastTime    |-> Num(0),
     animationId |-> Undefined]

Renderer(window) == resizeCanvas(RendererFields, window)

Renderer_updateConfig_keepsGrid(r, cv, newConfig) ==
    [r EXCEPT !.config = ObjectAssign(r.config, newConfig)]

Renderer_updateConfig(r, cv, newConfig) ==
    LET oldCellSize == r.config.cellSize
        merged      == ObjectAssign(r.config, newConfig)
    IN  IF Get(newConfig, "cellSize") # Undefined
           /\ StrictNotEqual(newConfig.cellSize, oldCellSize)
        THEN [r EXCEPT
                !.config     = merged,
                !.gridWidth  = MathCeil(Div(cv.width, merged.cellSize)),
                !.gridHeight = MathCeil(Div(cv.height, merged.cellSize))]
        ELSE [r EXCEPT !.config = merged]

\* calculateColor(waveValue, layerDepth): the three channels of the rgb() string
calculateColor(r, eng, waveValue, layerDepth) ==
    LET waveConfig == eng.config
        normalized == clamp(Div(Add(Div(waveValue, waveConfig.amplitude), Num(1)), Num(2)),
                            Num(0), Num(1))
        l0 == Add(Fin(1, 2), r.config.brightness)
        l1 == Mul(l0, Mul(Add(Fin(1, 2), Mul(normalized, Fin(1, 2))), r.config.contrast))
        l2 == Mul(l1, Sub(Num(1), Mul(Mul(layerDepth, waveConfig.depthEffect), Fin(1, 2))))
        lightness == clamp(l2, Num(0), Num(1))
    IN  hslToRgb(r.config.hue, r.config.saturation, lightness)

\* applyVignette(): skipped, or the gradient is drawn.  The inner radius is
\* maxRadius * vignetteRadius, with maxRadius the distance from the centre to a
\* corner; createRadialGradient raises IndexSizeError for a negative radius.
applyVignette(r, cv) ==
    IF Le(r.config.vignetteIntensity, Num(0)) THEN "skipped"
    ELSE IF (Sign(cv.width) # 0 \/ Sign(cv.height) # 0)
            /\ Lt(r.config.vignetteRadius, Num(0))
    THEN "IndexSizeError"
    ELSE "drawn"

\* stop(): the renderer, and the request it cancels (Null: none)
stop(r) ==
    IF Truthy(r.animationId)
    THEN [renderer |-> [r EXCEPT !.animationId = Null], cancelled |-> r.animationId]
    ELSE [renderer |-> r, cancelled |-> Null]

\* start(): the renderer once requestAnimationFrame returned `handle`
start(r, handle) == [r EXCEPT !.animationId = Num(handle)]

\* render(timestamp): the elapsed seconds since the previous frame
render_deltaTime(r, timestamp) ==
    IF Truthy(r.lastTime) THEN Div(Sub(timestamp, r.lastTime), Num(1000)) ELSE Num(0)

Renderer_getConfig_live(r) == ObjectRef("renderer.config", r.config)

Renderer_getConfig(r) == Spread(r.config)

-----------------------------------------------------------------------------
(* JSON texts: JSON.stringify and JSON.parse (public/js/utils.js,
   public/js/controls.js, public/js/export.js) *)

\* A number position of a text holds a literal of a finite value, a literal
\* beyond the range of a double (1e999), or the token null.
Literal(n, d) == [k |-> "literal", n |-> n, d |-> d]
HugeLiteral   == [k |-> "huge literal", n |-> 1, d |-> 1]
NullToken     == [k |-> "null token", n |-> 0, d |-> 1]

\* JSON.stringify of a property value: NaN, Infinity, -Infinity and null are
\* written as null
StringifyValue(v) == IF v.k = "fin" THEN Literal(v.n, v.d) ELSE NullToken

\* JSON.stringify of an object of numbers: undefined properties are left out
StringifyObject(obj) ==
    [key \in {k \in DOMAIN obj : obj[k] # Undefined} |-> StringifyValue(obj[key])]

\* JSON.parse of a number position
ParseToken(t) ==
    CASE t.k = "literal"      -> Fin(t.n, t.d)
      [] t.k = "huge literal" -> PInf
      [] t.k = "null token"   -> Null

ParseObject(members) == [key \in DOMAIN members |-> ParseToken(members[key])]

\* A member "wave" or "visual" of a document, and its member "characterSet"
Member(fields) == [present |-> TRUE, fields |-> fields]
NoMember       == [present |-> FALSE, fields |-> Empty]
Named(name)    == [present |-> TRUE, name |-> name]
NoName         == [present |-> FALSE, name |-> ""]

\* A text: nothing at all (no item, no file), text that is not JSON, the text
\* null, or the text of an object with the members it has.
Text(syntax, wave, visual, characterSet) ==
    [syntax |-> syntax, wave |-> wave, visual |-> visual,
     characterSet |-> characterSet]

NoText        == Text("none", NoMember, NoMember, NoName)
MalformedText == Text("malformed", NoMember, NoMember, NoName)
NullText      == Text("null", NoMember, NoMember, NoName)

\* JSON.stringify(config) of { wave, visual, characterSet }
JSONStringify(config) ==
    Text("object", Member(StringifyObject(config.wave)),
         Member(StringifyObject(config.visual)), Named(config.characterSet))

\* a parser that reads text that is not JSON as {} instead of raising
JSONParse_lenient(text) ==
    [threw |-> FALSE,
     value |-> IF text.syntax \in {"none", "malformed"}
               THEN Text("object", NoMember, NoMember, NoName)
               ELSE [text EXCEPT
                        !.wave.fields   = ParseObject(text.wave.fields),
                        !.visual.fields = ParseObject(text.visual.fields)]]

\* JSON.parse(text): a SyntaxError, null, or the object
JSONParse(text) ==
    IF text.syntax \in {"none", "malformed"}
    THEN [threw |-> TRUE, value |-> NullText]
    ELSE [threw |-> FALSE,
          value |-> [text EXCEPT
                        !.wave.fields   = ParseObject(text.wave.fields),
                        !.visual.fields = ParseObject(text.visual.fields)]]

\* btoa(text), and window.location.hash.substring(1): empty, the base64 of a
\* text, or characters atob rejects
Hash(form, text) == [form |-> form, text |-> text]
NoHash  == Hash("empty", NoText)
BadHash == Hash("not base64", NoText)
btoa(text) == Hash("base64", text)

\* what the page holds before anything was stored, exported or shown
NoLoading  == [active |-> FALSE, text |-> NoText]
NoNotice   == [message |-> "", type |-> "", show |-> FALSE, age |-> 0,
               timers |-> {}]
NoSnapshot == [taken |-> FALSE, wave |-> Empty, visual |-> Empty,
               characterSet |-> ""]

-----------------------------------------------------------------------------
(* Controls (public/js/controls.js) and ExportManager (public/js/export.js):
   what they do to the two components *)

\* Controls.getConfig(): { wave, visual, characterSet }
Controls_getConfig(eng, r) ==
    [wave         |-> WaveEngine_getConfig(eng).obj,
     visual       |-> Renderer_getConfig(r).obj,
     characterSet |-> eng.currentCharacterSet]

\* The three steps every load takes with the parsed document `config`:
\*   if (config.wave) updateConfig; if (config.visual) updateConfig;
\*   if (config.characterSet) setCharacterSet
\* An object is truthy, an absent member undefined, the empty string falsy.
ApplyDocument(eng, r, cv, config) ==
    LET updated == IF config.wave.present
                   THEN WaveEngine_updateConfig(eng, config.wave.fields)
                   ELSE eng
    IN  [waveEngine |-> IF config.characterSet.present /\ config.characterSet.name # ""
                        THEN setCharacterSet(updated, config.characterSet.name)
                        ELSE updated,
         renderer   |-> IF config.visual.present
                        THEN Renderer_updateConfig(r, cv, config.visual.fields)
                        ELSE r]

\* JSON.parse(text) followed by the three steps, inside try: a SyntaxError of
\* the parse, or the TypeError of null.wave, leaves for the catch clause
\* before any step was taken.
TryDocument(eng, r, cv, parsed) ==
    IF parsed.threw \/ parsed.value.syntax = "null"
    THEN [threw |-> TRUE, waveEngine |-> eng, renderer |-> r]
    ELSE LET applied == ApplyDocument(eng, r, cv, parsed.value)
         IN  [threw |-> FALSE, waveEngine |-> applied.waveEngine,
              renderer |-> applied.renderer]

\* atob(hash) and JSON.parse of the result; atob raises on characters that are
\* not base64
loadFromURL(eng, r, cv, hash) ==
    IF hash.form = "empty" THEN [threw |-> FALSE, waveEngine |-> eng, renderer |-> r]
    ELSE IF hash.form = "not base64"
         THEN [threw |-> TRUE, waveEngine |-> eng, renderer |-> r]
         ELSE TryDocument(eng, r, cv, JSONParse(hash.text))

\* Utils.storage.get('asciiWavesConfig'): null when there is no item or the
\* item is not JSON
storage_get(item) ==
    IF item.syntax = "none" \/ JSONParse(item).threw
    THEN NullText
    ELSE JSONParse(item).value

\* loadFromStorage(): if (config) { the three steps }
loadFromStorage(eng, r, cv, item) ==
    LET config == storage_get(item)
    IN  IF config.syntax = "null"
        THEN [waveEngine |-> eng, renderer |-> r]
        ELSE ApplyDocument(eng, r, cv, config)

\* a write that never reaches the store
storage_set_dropped(item, value, accepted) == item

\* Utils.storage.set('asciiWavesConfig', value): setItem stores the text, or
\* raises (the quota is exceeded, storage is disabled) and the error is logged
storage_set(item, value, accepted) ==
    IF accepted THEN JSONStringify(value) ELSE item

\* saveToStorage()
saveToStorage(item, eng, r, accepted) ==
    storage_set(item, Controls_getConfig(eng, r), accepted)

\* saveJSON(): the text of the downloaded file
saveJSON(eng, r) == JSONStringify(Controls_getConfig(eng, r))

\* generateShareURL(): the hash of the URL
generateShareURL(eng, r) == btoa(JSONStringify(Controls_getConfig(eng, r)))

\* Presets.themes (public/js/presets.js)
Presets_themes ==
    [ocean |->
        [wave |-> [amplitude |-> Fin(4, 5), speed |-> Num(1),
                   frequency |-> Fin(3, 2), layers |-> Num(3),
                   choppiness |-> Fin(3, 10), foamThreshold |-> Fin(7, 10),
                   depthEffect |-> Fin(1, 2), timeSpeed |-> Fin(3, 2)],
         visual |-> [cellSize |-> Num(16), hue |-> Num(200),
                     saturation |-> Fin(6, 10), brightness |-> Num(0),
                     contrast |-> Num(1), vignetteIntensity |-> Fin(4, 10),
                     vignetteRadius |-> Fin(6, 10)],
         characterSet |-> "classic"],
     sunset |->
        [wave |-> [amplitude |-> Fin(6, 10), speed |-> Fin(7, 10),
                   frequency |-> Fin(6, 5), layers |-> Num(4),
                   choppiness |-> Fin(2, 10), foamThreshold |-> Fin(8, 10),
                   depthEffect |-> Fin(6, 10), timeSpeed |-> Fin(6, 5)],
         visual |-> [cellSize |-> Num(16), hue |-> Num(20),
                     saturation |-> Fin(8, 10), brightness |-> Fin(1, 10),
                     contrast |-> Fin(13, 10), vignetteIntensity |-> Fin(6, 10),
                     vignetteRadius |-> Fin(1, 2)],
         characterSet |-> "minimal"],
     storm |->
        [wave |-> [amplitude |-> Fin(15, 10), speed |-> Num(2),
                   frequency |-> Fin(25, 10), layers |-> Num(5),
                   choppiness |-> Fin(8, 10), foamThreshold |-> Fin(6, 10),
                   depthEffect |-> Fin(7, 10), timeSpeed |-> Num(2)],
         visual |-> [cellSize |-> Num(14), hue |-> Num(200),
                     saturation |-> Fin(3, 10), brightness |-> Fin(0 - 2, 10),
                     contrast |-> Fin(15, 10), vignetteIntensity |-> Fin(7, 10),
                     vignetteRadius |-> Fin(4, 10)],
         characterSet |-> "dense"],
     night |->
        [wave |-> [amplitude |-> Fin(4, 10), speed |-> Fin(5, 10),
                   frequency |-> Fin(8, 10), layers |-> Num(2),
                   choppiness |-> Fin(1, 10), foamThreshold |-> Fin(9, 10),
                   depthEffect |-> Fin(4, 10), timeSpeed |-> Num(1)],
         visual |-> [cellSize |-> Num(18), hue |-> Num(240),
                     saturation |-> Fin(4, 10), brightness |-> Fin(0 - 3, 10),
                     contrast |-> Fin(12, 10), vignetteIntensity |-> Fin(8, 10),
                     vignetteRadius |-> Fin(5, 10)],
         characterSet |-> "minimal"],
     tropical |->
        [wave |-> [amplitude |-> Fin(7, 10), speed |-> Fin(8, 10),
                   frequency |-> Fin(18, 10), layers |-> Num(3),
                   choppiness |-> Fin(4, 10), foamThreshold |-> Fin(7, 10),
                   depthEffect |-> Fin(5, 10), timeSpeed |-> Fin(13, 10)],
         visual |-> [cellSize |-> Num(16), hue |-> Num(180),
                     saturation |-> Fin(9, 10), brightness |-> Fin(2, 10),
                     contrast |-> Fin(11, 10), vignetteIntensity |-> Fin(3, 10),
                     vignetteRadius |-> Fin(7, 10)],
         characterSet |-> "classic"],
     terminal |->
        [wave |-> [amplitude |-> Fin(9, 10), speed |-> Fin(12, 10),
                   frequency |-> Fin(15, 10), layers |-> Num(3),
                   choppiness |-> Fin(5, 10), foamThreshold |-> Fin(75, 100),
                   depthEffect |-> Fin(3, 10), timeSpeed |-> Fin(15, 10)],
         visual |-> [cellSize |-> Num(14), hue |-> Num(120),
                     saturation |-> Num(1), brightness |-> Num(0),
                     contrast |-> Num(2), vignetteIntensity |-> Fin(2, 10),
                     vignetteRadius |-> Fin(8, 10)],
         characterSet |-> "minimal"]]

\* Presets.get(key), this.themes[key] || null: a theme (an own property of the
\* literal), a member of Object.prototype (inherited by the literal, and
\* truthy), or null
Presets_get(key) ==
    IF key \in DOMAIN Presets_themes THEN "theme"
    ELSE IF key \in ObjectPrototypeKeys THEN "inherited"
    ELSE "null"

\* Presets.apply(key, waveEngine, renderer).  A member of Object.prototype has
\* no wave property: waveEngine.updateConfig(undefined) merges nothing and
\* raises a TypeError at newConfig.noiseSeed, and apply returns nothing.
Presets_apply(key, eng, r, cv) ==
    CASE Presets_get(key) = "null" ->
            [threw |-> FALSE, success |-> FALSE, waveEngine |-> eng,
             renderer |-> r]
      [] Presets_get(key) = "inherited" ->
            [threw |-> TRUE, success |-> FALSE, waveEngine |-> eng,
             renderer |-> r]
      [] OTHER ->
            LET preset == Presets_themes[key]
            IN  [threw      |-> FALSE,
                 success    |-> TRUE,
                 waveEngine |-> setCharacterSet(
                                    WaveEngine_updateConfig(eng, preset.wave),
                                    preset.characterSet),
                 renderer   |-> Renderer_updateConfig(r, cv, preset.visual)]

\* the record of the configuration at the time a text is written
Snapshot(eng, r) ==
    [taken |-> TRUE, wave |-> eng.config, visual |-> r.config,
     characterSet |-> eng.currentCharacterSet]

\* the delay of the removal timer, in milliseconds
NotificationMs == 3000

\* showNotification(message, type) on the element n: the text and the class
\* 'notification <type> show' are set and a timer is started that removes
\* 'show' after 3000 ms.  age is the time since this call, timers the delays
\* left of the timers pending; no timer is cleared.
showNotification(n, message, type) ==
    [message |-> message, type |-> type, show |-> TRUE, age |-> 0,
     timers  |-> n.timers \cup {NotificationMs}]

-----------------------------------------------------------------------------
(* Bounds and inputs *)

MaxNoise   == 3     \* SimplexNoise constructions per run
MaxHandle  == 2     \* start() is not called once this many requests were made
MaxTicks   == 2     \* display refreshes per run
FrameMs    == 16    \* milliseconds between two display refreshes
MaxLoop    == 3     \* iterations of a grid loop that never ends
MaxSeed    == 24    \* noise seeds 0..MaxSeed are constructed
MaxClock   == 1     \* update() is not called directly once the clock passed this

Seeds == {7}

\* values the four sines and the noise sample of calculateWave take
Osc(s1, s2, s3, s4, nz) == [s1 |-> s1, s2 |-> s2, s3 |-> s3, s4 |-> s4, nz |-> nz]

Oscillations ==
    {Osc(Num(0), Num(0), Num(0), Num(0), Num(0)),
     Osc(Num(1), Num(1), Num(1), Num(1), Num(1)),
     Osc(Num(-1), Num(-1), Num(-1), Num(-1), Num(-1)),
     Osc(Fin(1, 2), Num(0), Num(0), Num(0), Num(0)),
     Osc(Fin(-1, 2), Num(0), Num(0), Num(0), Num(0)),
     Osc(Fin(3, 5), Num(0), Num(0), Num(0), Num(0)),
     Osc(Fin(1, 5), Num(0), Num(0), Num(0), Num(0)),
     Osc(Fin(-1, 5), Num(0), Num(0), Num(0), Num(0)),
     Osc(Num(0), Num(0), Num(0), Num(0), Fin(1, 3))}

\* values Math.random() returns
Randoms == {Num(0), Fin(99, 100)}

Partial(key, value) == [k \in {key} |-> value]

\* names given to setCharacterSet: the selector's options, and names only a
\* stored or shared document can carry
PaletteNames == {"classic", "minimal", "dense", "unicode"}
SetNames     == PaletteNames \cup {"retro", "constructor"}

\* partial wave configurations: the sliders, the seed button, a loaded document
EnginePartials ==
    {Empty,
     Partial("amplitude", Num(0)),
     Partial("layers", Num(1)),
     Partial("noiseSeed", Num(42)), Partial("noiseSeed", Num(7)),
     ObjectAssign(Partial("speed", Num(2)), Partial("foamThreshold", Fin(1, 2)))}

SelectPartials ==
    {Partial("amplitude", Num(0)), Partial("amplitude", Num(2)),
     Partial("amplitude", Fin(-1, 2)),
     Partial("foamThreshold", Num(1)), Partial("foamThreshold", Num(-1)),
     Partial("layers", Num(1))}

\* the animation loop: a slider, and values only a loaded document carries
AppOscillations ==
    {Osc(Num(0), Num(0), Num(0), Num(0), Num(0))}

\* band selection: at layer 0 the normalized value is (s1 + 1) / 2, here on
\* each threshold, on the default foam threshold, and between them
BandOscillations ==
    {Osc(s1, Num(0), Num(0), Num(0), Num(0)) :
        s1 \in {Num(-1), Fin(-9, 10), Fin(-7, 10), Fin(-1, 2), Fin(-3, 10), Num(0),
                Fin(1, 10), Fin(2, 5), Fin(1, 2), Fin(3, 5), Num(1)}}

BandPartials ==
    {Partial("foamThreshold", Fin(9, 10)), Partial("foamThreshold", Fin(1, 5)),
     Partial("amplitude", Num(2))}

\* noise seeds: what Utils.randomInt(0, 999999) returns, and no seed at all
NoiseSeeds ==
    {Num(i) : i \in 0..MaxSeed}
        \cup {Num(233280), Num(999999), Num(0 - 1), Num(0 - 6), Num(0 - 999999),
              Undefined}

\* values of Math.random() for the default seed
DefaultSeeds == {Fin(1, 4), Fin(1, 2)}

\* seeds of the instances noise3D is called on, and its coordinates
LookupSeeds == {Num(7), Num(0 - 6)}
Coordinates == {Num(0 - 300), Fin(0 - 1, 2), Num(0), Fin(1, 3), Num(200), Num(900)}

\* painting: a trough (blank in every palette), still water, a crest
PaintOscillations ==
    {Osc(Num(-1), Num(-1), Num(-1), Num(-1), Num(-1)),
     Osc(Num(0), Num(0), Num(0), Num(0), Num(0)),
     Osc(Num(1), Num(1), Num(1), Num(1), Num(1))}

PaintPartials == {Partial("layers", Num(2))}

AppWavePartials ==
    {Partial("timeSpeed", Num(-1)), Partial("layers", Num(1))}

AppRenderPartials ==
    {Partial("cellSize", Num(0)), Partial("vignetteRadius", Num(-1))}

\* the colour mapping
ColorOscillations ==
    {Osc(Num(0), Num(0), Num(0), Num(0), Num(0)),
     Osc(Num(1), Num(1), Num(1), Num(1), Num(1)),
     Osc(Num(-1), Num(-1), Num(-1), Num(-1), Num(-1)),
     Osc(Fin(1, 2), Num(0), Num(0), Num(0), Num(0))}

ColorWavePartials ==
    {Partial("amplitude", Num(0)), Partial("amplitude", Num(2)),
     Partial("depthEffect", Num(3))}

ColorRenderPartials ==
    {Partial("hue", Num(-30)), Partial("hue", Num(360)),
     Partial("saturation", Num(1)), Partial("saturation", Num(2)),
     Partial("brightness", Num(-1)), Partial("brightness", Fin(1, 2)),
     Partial("contrast", Num(3))}

\* partial merge: no field, one field, several fields, a seed, and a field the
\* configuration does not declare (only a loaded document carries one)
ConfigWavePartials ==
    {Empty,
     Partial("amplitude", Num(2)),
     Partial("noiseSeed", Num(7)),
     ObjectAssign(Partial("speed", Num(2)), Partial("foamThreshold", Fin(1, 2))),
     Partial("foo", Num(1))}

ConfigRenderPartials ==
    {Empty,
     Partial("hue", Num(120)),
     Partial("cellSize", Num(8)),
     ObjectAssign(Partial("contrast", Num(2)), Partial("brightness", Fin(1, 10))),
     Partial("bar", Num(1))}

\* texts a file or a URL hash can hold: not JSON, the text null, a document
\* with one member, a document with all three
WaveOnlyText ==
    Text("object", Member(Partial("amplitude", Literal(2, 1))), NoMember, NoName)

FullText ==
    Text("object",
         Member(ObjectAssign(Partial("amplitude", Literal(3, 2)),
                             Partial("noiseSeed", Literal(7, 1)))),
         Member(ObjectAssign(Partial("hue", Literal(120, 1)),
                             Partial("cellSize", Literal(8, 1)))),
         Named("minimal"))

FileTexts == {MalformedText, NullText, WaveOnlyText, FullText}

\* a document carrying fields the configurations do not declare
ExtraText ==
    Text("object",
         Member(ObjectAssign(Partial("amplitude", Literal(2, 1)),
                             Partial("foo", Literal(1, 1)))),
         Member(ObjectAssign(Partial("hue", Literal(120, 1)),
                             Partial("bar", Literal(1, 1)))),
         Named("minimal"))

SchemaTexts == {WaveOnlyText, ExtraText}

\* a document whose amplitude is the literal 1e999, which JSON.parse reads as
\* Infinity
HugeText ==
    Text("object", Member(Partial("amplitude", HugeLiteral)), NoMember, NoName)

Hashes == {NoHash, BadHash} \cup {btoa(text) : text \in FileTexts}

\* the grid
GridWindows ==
    {[width |-> Num(32), height |-> Num(16)],
     [width |-> Num(1920), height |-> Num(1080)],
     [width |-> Num(100), height |-> Num(50)]}

GridPartials ==
    {Partial("cellSize", Num(16)), Partial("cellSize", Num(8)),
     Partial("cellSize", Num(24)), Partial("hue", Num(120)),
     ObjectAssign(Partial("cellSize", Num(7)), Partial("contrast", Num(2)))}

-----------------------------------------------------------------------------
(* Operations *)

\* arg and ret are records (a number is one), so that any two values of lastOp
\* can be compared
Op(name, arg, ret) == [op |-> name, arg |-> arg, ret |-> ret]

\* requestAnimationFrame(callback): the list of animation-frame callbacks with
\* one more entry, made at host time `at`.  The handle is a positive integer.
requestAnimationFrame(callbacks, handle, at) ==
    callbacks \cup {[h |-> handle, at |-> at]}

\* cancelAnimationFrame(id)
cancelAnimationFrame(callbacks, id) == {c \in callbacks : Num(c.h) # id}

\* The callbacks the current display refresh runs: those requested before it.
Due == {c \in pending : c.at < now}

Idle_always == TRUE

\* render() and the animate callback are synchronous: nothing else runs between
\* their first and their last statement.
Idle == pc = "idle"

\* An event handler runs when no callback is on the stack and the callbacks of
\* the current refresh have all run.
Quiet == Idle /\ Due = {}

NoCell  == [layer |-> Num(0), gridY |-> 0, gridX |-> 0]
NoColor == <<Num(0), Num(0), Num(0)>>
NoFrame == [timestamp |-> Num(0), updates |-> 0, clocks |-> {}, samples |-> 0,
            background |-> NoColor, cells |-> <<>>, outcome |-> "none"]

IsBlank_never(char) == FALSE

\* char === ' '
IsBlank(char) == char.kind = "char" /\ char.ch = 32

\* waveEngine.updateConfig(newConfig): a slider, the seed button, a loaded document
UpdateWaveConfig(newConfig) ==
    /\ Quiet
    /\ Has(newConfig, "noiseSeed") => waveEngine.noise.inst < MaxNoise
    /\ waveEngine' = WaveEngine_updateConfig(waveEngine, newConfig)
    /\ lastOp' = Op("WaveEngine.updateConfig", newConfig, Undefined)
    /\ UNCHANGED <<renderer, canvas, win, resizeTimer, pending, nextHandle, now,
                   pc, cell, frame>>
    /\ UNCHANGED page

\* waveEngine.setCharacterSet(setName): the selector, a preset, a loaded document
SetCharacterSet(setName) ==
    /\ Quiet
    /\ waveEngine' = setCharacterSet(waveEngine, setName)
    /\ lastOp' = Op("setCharacterSet", [setName |-> setName], Undefined)
    /\ UNCHANGED <<renderer, canvas, win, resizeTimer, pending, nextHandle, now,
                   pc, cell, frame>>
    /\ UNCHANGED page

\* waveEngine.resetTime()
ResetTime ==
    /\ Quiet
    /\ waveEngine' = resetTime(waveEngine)
    /\ lastOp' = Op("resetTime", Undefined, Undefined)
    /\ UNCHANGED <<renderer, canvas, win, resizeTimer, pending, nextHandle, now,
                   pc, cell, frame>>
    /\ UNCHANGED page

\* waveEngine.update(deltaTime), called on the engine alone
Update(deltaTime) ==
    /\ Quiet
    /\ Lt(waveEngine.time, Num(MaxClock))
    /\ waveEngine' = update(waveEngine, deltaTime)
    /\ lastOp' = Op("update", deltaTime, Undefined)
    /\ UNCHANGED <<renderer, canvas, win, resizeTimer, pending, nextHandle, now,
                   pc, cell, frame>>
    /\ UNCHANGED page

\* One sample of the engine: calculateWave, then selectCharacter on its value.
Sample(layer, osc, random) ==
    /\ Quiet
    /\ LET waveValue == calculateWave(waveEngine, layer, osc)
       IN  lastOp' = Op("selectCharacter", waveValue,
                        selectCharacter(waveEngine, waveValue, layer, random))
    /\ UNCHANGED <<waveEngine, renderer, canvas, win, resizeTimer, pending,
                   nextHandle, now, pc, cell, frame>>
    /\ UNCHANGED page

\* the layers render() samples: layers-1 down to 0
LayersOf(eng) ==
    {Sub(eng.config.layers, Num(i)) :
        i \in {j \in 1..5 : Ge(Sub(eng.config.layers, Num(j)), Num(0))}}

\* renderer.updateConfig(newConfig): a slider, a preset, a loaded document
UpdateRenderConfig(newConfig) ==
    /\ Quiet
    /\ renderer' = Renderer_updateConfig(renderer, canvas, newConfig)
    /\ lastOp' = Op("Renderer.updateConfig", newConfig, Undefined)
    /\ UNCHANGED <<waveEngine, canvas, win, resizeTimer, pending, nextHandle, now,
                   pc, cell, frame>>
    /\ UNCHANGED page

\* One colour: calculateColor on a sample of the engine, as render() calls it
\* for a cell of `layer`.
Color(layer, osc) ==
    /\ Quiet
    /\ LET waveValue  == calculateWave(waveEngine, layer, osc)
           layerDepth == Div(layer, MathMax(waveEngine.config.layers, Num(1)))
       IN  lastOp' = Op("calculateColor",
                        [waveValue |-> waveValue, layerDepth |-> layerDepth],
                        [rgb |-> calculateColor(renderer, waveEngine, waveValue,
                                                layerDepth)])
    /\ UNCHANGED <<waveEngine, renderer, canvas, win, resizeTimer, pending,
                   nextHandle, now, pc, cell, frame>>
    /\ UNCHANGED page

\* The background colour, as render() asks for it: calculateColor(-amplitude, 1)
BackgroundColor ==
    /\ Quiet
    /\ LET waveValue == Neg(waveEngine.config.amplitude)
       IN  lastOp' = Op("calculateColor",
                        [waveValue |-> waveValue, layerDepth |-> Num(1)],
                        [rgb |-> calculateColor(renderer, waveEngine, waveValue,
                                                Num(1))])
    /\ UNCHANGED <<waveEngine, renderer, canvas, win, resizeTimer, pending,
                   nextHandle, now, pc, cell, frame>>
    /\ UNCHANGED page

\* The window is resized: the debounced listener clears its timeout and sets a
\* new one.
WindowResize(w) ==
    /\ Quiet
    /\ w # win
    /\ win' = w
    /\ resizeTimer' = TRUE
    /\ lastOp' = Op("resize", w, Undefined)
    /\ UNCHANGED <<waveEngine, renderer, canvas, pending, nextHandle, now, pc,
                   cell, frame>>
    /\ UNCHANGED page

\* The timeout of the debounced listener fires: resizeCanvas()
ResizeTimeout ==
    /\ Quiet
    /\ resizeTimer
    /\ resizeTimer' = FALSE
    /\ LET resized == resizeCanvas(renderer, win)
       IN  /\ renderer' = resized.renderer
           /\ canvas' = resized.canvas
    /\ lastOp' = Op("resizeCanvas", Undefined, Undefined)
    /\ UNCHANGED <<waveEngine, win, pending, nextHandle, now, pc, cell, frame>>
    /\ UNCHANGED page

\* new SimplexNoise(seed), twice: Math.random() produces r1 for the first
\* construction and r2 for the second
NewSimplexNoise(seed, r1, r2) ==
    /\ Quiet
    /\ lastOp' = Op("new SimplexNoise",
                    [seed |-> seed, first |-> r1, second |-> r2],
                    [first  |-> SimplexNoise_tables(seed, r1),
                     second |-> SimplexNoise_tables(seed, r2)])
    /\ UNCHANGED <<waveEngine, renderer, canvas, win, resizeTimer, pending,
                   nextHandle, now, pc, cell, frame>>
    /\ UNCHANGED page

\* noise.noise3D(xin, yin, zin) on the instance constructed last
Noise3D(xin, yin, zin) ==
    /\ Quiet
    /\ lastOp.op \in {"new SimplexNoise", "noise3D"}
    /\ LET noise == IF lastOp.op = "noise3D" THEN lastOp.arg.noise
                    ELSE lastOp.ret.first
       IN  lastOp' = Op("noise3D",
                        [noise |-> noise, xin |-> xin, yin |-> yin, zin |-> zin],
                        noise3D(noise, xin, yin, zin))
    /\ UNCHANGED <<waveEngine, renderer, canvas, win, resizeTimer, pending,
                   nextHandle, now, pc, cell, frame>>
    /\ UNCHANGED page

\* the own properties of the object a reference denotes
PropertiesOf(h, eng, r) ==
    CASE h.ref = "waveEngine.config" -> eng.config
      [] h.ref = "renderer.config"   -> r.config
      [] OTHER                       -> h.obj

\* const config = waveEngine.getConfig(), kept by the caller
GetWaveConfig ==
    /\ Quiet
    /\ held' = WaveEngine_getConfig(waveEngine)
    /\ lastOp' = Op("WaveEngine.getConfig", Undefined, Undefined)
    /\ UNCHANGED <<waveEngine, renderer, canvas, win, resizeTimer, pending,
                   nextHandle, now, pc, cell, frame>>
    /\ UNCHANGED <<localStorage, exported, loading, notification, saved>>

\* const config = renderer.getConfig(), kept by the caller
GetRenderConfig ==
    /\ Quiet
    /\ held' = Renderer_getConfig(renderer)
    /\ lastOp' = Op("Renderer.getConfig", Undefined, Undefined)
    /\ UNCHANGED <<waveEngine, renderer, canvas, win, resizeTimer, pending,
                   nextHandle, now, pc, cell, frame>>
    /\ UNCHANGED <<localStorage, exported, loading, notification, saved>>

\* config[key] = value on the object the caller keeps: the assignment lands in
\* the object the reference denotes
AssignHeld(key, value) ==
    /\ Quiet
    /\ held.ref # "none"
    /\ LET assigned == ObjectAssign(PropertiesOf(held, waveEngine, renderer),
                                    Partial(key, value))
       IN  /\ held' = IF held.ref = "copy" THEN ObjectRef("copy", assigned) ELSE held
           /\ waveEngine' = IF held.ref = "waveEngine.config"
                             THEN [waveEngine EXCEPT !.config = assigned]
                             ELSE waveEngine
           /\ renderer' = IF held.ref = "renderer.config"
                           THEN [renderer EXCEPT !.config = assigned]
                           ELSE renderer
    /\ lastOp' = Op("config[key] = value", [key |-> key, value |-> value], Undefined)
    /\ UNCHANGED <<canvas, win, resizeTimer, pending, nextHandle, now, pc, cell,
                   frame>>
    /\ UNCHANGED <<localStorage, exported, loading, notification, saved>>

\* whether applying the text would build a noise field
BuildsNoise(text) ==
    text.syntax = "object" /\ text.wave.present /\ Has(text.wave.fields, "noiseSeed")

\* loadJSON(file) up to await file.text(): the function is suspended with the
\* file's text on its way
LoadJSON(text) ==
    /\ Quiet
    /\ ~loading.active
    /\ loading' = [active |-> TRUE, text |-> text]
    /\ lastOp' = Op("loadJSON", text, Undefined)
    /\ UNCHANGED <<waveEngine, renderer, canvas, win, resizeTimer, pending,
                   nextHandle, now, pc, cell, frame>>
    /\ UNCHANGED <<held, localStorage, exported, notification, saved>>

\* loadJSON(file) from await file.text() on: parse, the three steps, updateUI,
\* saveToStorage and the notice; or the catch clause and its notice
LoadJSONResumed(accepted) ==
    /\ Quiet
    /\ loading.active
    /\ BuildsNoise(loading.text) => waveEngine.noise.inst < MaxNoise
    /\ LET tried == TryDocument(waveEngine, renderer, canvas, JSONParse(loading.text))
       IN  /\ waveEngine' = tried.waveEngine
           /\ renderer' = tried.renderer
           /\ IF tried.threw
              THEN /\ notification' = showNotification(notification,
                                        "Failed to load configuration", "error")
                   /\ UNCHANGED <<localStorage, saved>>
              ELSE /\ notification' = showNotification(notification,
                                        "Configuration loaded!", "success")
                   /\ localStorage' = saveToStorage(localStorage, tried.waveEngine,
                                                    tried.renderer, accepted)
                   /\ saved' = IF accepted
                               THEN [saved EXCEPT !.storage =
                                        Snapshot(tried.waveEngine, tried.renderer)]
                               ELSE saved
           /\ lastOp' = Op("loadJSON resumed", loading.text,
                            [threw |-> tried.threw, accepted |-> accepted])
    /\ loading' = NoLoading
    /\ UNCHANGED <<canvas, win, resizeTimer, pending, nextHandle, now, pc, cell,
                   frame>>
    /\ UNCHANGED <<held, exported>>

\* loadFromURL() with `hash` in the address: a failure is logged to the console
LoadFromURL(hash) ==
    /\ Quiet
    /\ BuildsNoise(hash.text) => waveEngine.noise.inst < MaxNoise
    /\ LET tried == loadFromURL(waveEngine, renderer, canvas, hash)
       IN  /\ waveEngine' = tried.waveEngine
           /\ renderer' = tried.renderer
           /\ lastOp' = Op("loadFromURL", hash, [threw |-> tried.threw])
    /\ UNCHANGED <<canvas, win, resizeTimer, pending, nextHandle, now, pc, cell,
                   frame>>
    /\ UNCHANGED page

\* loadFromStorage()
LoadFromStorage ==
    /\ Quiet
    /\ BuildsNoise(localStorage) => waveEngine.noise.inst < MaxNoise
    /\ LET applied == loadFromStorage(waveEngine, renderer, canvas, localStorage)
       IN  /\ waveEngine' = applied.waveEngine
           /\ renderer' = applied.renderer
    /\ lastOp' = Op("loadFromStorage", localStorage, Undefined)
    /\ UNCHANGED <<canvas, win, resizeTimer, pending, nextHandle, now, pc, cell,
                   frame>>
    /\ UNCHANGED page

\* a 'change' event on a slider or a select: if (!this.isUpdating)
\* saveToStorage().  isUpdating is true only while updateUI runs.
SaveToStorage(accepted) ==
    /\ Quiet
    /\ localStorage' = saveToStorage(localStorage, waveEngine, renderer, accepted)
    /\ saved' = IF accepted
                THEN [saved EXCEPT !.storage = Snapshot(waveEngine, renderer)]
                ELSE saved
    /\ lastOp' = Op("saveToStorage", Undefined, [accepted |-> accepted])
    /\ UNCHANGED <<waveEngine, renderer, canvas, win, resizeTimer, pending,
                   nextHandle, now, pc, cell, frame>>
    /\ UNCHANGED <<held, exported, loading, notification>>

\* saveJSON(): the file is downloaded and a notice shown
SaveJSON ==
    /\ Quiet
    /\ exported' = [exported EXCEPT !.file = saveJSON(waveEngine, renderer)]
    /\ saved' = [saved EXCEPT !.file = Snapshot(waveEngine, renderer)]
    /\ notification' = showNotification(notification, "Configuration saved!",
                                        "success")
    /\ lastOp' = Op("saveJSON", Undefined, Undefined)
    /\ UNCHANGED <<waveEngine, renderer, canvas, win, resizeTimer, pending,
                   nextHandle, now, pc, cell, frame>>
    /\ UNCHANGED <<held, localStorage, loading>>

\* generateShareURL(): the URL is made and copied, by the clipboard or by the
\* textarea; `copied` is whether the copy went through
GenerateShareURL(copied) ==
    /\ Quiet
    /\ exported' = [exported EXCEPT !.url = generateShareURL(waveEngine, renderer)]
    /\ saved' = [saved EXCEPT !.url = Snapshot(waveEngine, renderer)]
    /\ notification' = IF copied
                       THEN showNotification(notification,
                                "Share URL copied to clipboard!", "success")
                       ELSE showNotification(notification,
                                "Failed to copy URL", "error")
    /\ lastOp' = Op("generateShareURL", [copied |-> copied], Undefined)
    /\ UNCHANGED <<waveEngine, renderer, canvas, win, resizeTimer, pending,
                   nextHandle, now, pc, cell, frame>>
    /\ UNCHANGED <<held, localStorage, loading>>

\* Time passes while no handler runs: ms milliseconds, no more than the next
\* removal timer has left.  The age of the notice is counted up to 3000 ms.
Elapse(ms) ==
    /\ Quiet
    /\ notification.timers # {}
    /\ \A t \in notification.timers : ms <= t
    /\ notification' =
          [notification EXCEPT
              !.age    = IF @ + ms < NotificationMs THEN @ + ms ELSE NotificationMs,
              !.timers = {t - ms : t \in @}]
    /\ lastOp' = Op("elapse", Num(ms), Undefined)
    /\ UNCHANGED <<waveEngine, renderer, canvas, win, resizeTimer, pending,
                   nextHandle, now, pc, cell, frame>>
    /\ UNCHANGED <<held, localStorage, exported, loading, saved>>

\* the callback of a removal timer that ran out:
\* notification.classList.remove('show')
NotificationTimeout ==
    /\ Quiet
    /\ 0 \in notification.timers
    /\ notification' = [notification EXCEPT !.show = FALSE, !.timers = @ \ {0}]
    /\ lastOp' = Op("setTimeout callback", Undefined, Undefined)
    /\ UNCHANGED <<waveEngine, renderer, canvas, win, resizeTimer, pending,
                   nextHandle, now, pc, cell, frame>>
    /\ UNCHANGED <<held, localStorage, exported, loading, saved>>

\* a 'change' event on the character-set selector: its own listener calls
\* setCharacterSet and saveToStorage, then the listener of every select calls
\* saveToStorage again
SelectCharacterSet(setName, first, second) ==
    /\ Quiet
    /\ LET eng == setCharacterSet(waveEngine, setName)
           once == saveToStorage(localStorage, eng, renderer, first)
       IN  /\ waveEngine' = eng
           /\ localStorage' = saveToStorage(once, eng, renderer, second)
           /\ saved' = IF first \/ second
                       THEN [saved EXCEPT !.storage = Snapshot(eng, renderer)]
                       ELSE saved
    /\ lastOp' = Op("characterSet change", [setName |-> setName],
                    [accepted |-> first \/ second])
    /\ UNCHANGED <<renderer, canvas, win, resizeTimer, pending, nextHandle, now,
                   pc, cell, frame>>
    /\ UNCHANGED <<held, exported, loading, notification>>

\* the seed button's click, or Ctrl+R: a seed from Utils.randomInt(0, 999999),
\* updateConfig, updateUI, saveToStorage
RegenerateSeed(event, newSeed, accepted) ==
    /\ Quiet
    /\ waveEngine.noise.inst < MaxNoise
    /\ LET eng == WaveEngine_updateConfig(waveEngine, Partial("noiseSeed", newSeed))
       IN  /\ waveEngine' = eng
           /\ localStorage' = saveToStorage(localStorage, eng, renderer, accepted)
           /\ saved' = IF accepted
                       THEN [saved EXCEPT !.storage = Snapshot(eng, renderer)]
                       ELSE saved
    /\ lastOp' = Op("regenerateSeed", [event |-> event, newSeed |-> newSeed],
                    [accepted |-> accepted])
    /\ UNCHANGED <<renderer, canvas, win, resizeTimer, pending, nextHandle, now,
                   pc, cell, frame>>
    /\ UNCHANGED <<held, exported, loading, notification>>

\* applyPreset(presetKey), from a preset button or a number key: if the preset
\* was applied, updateUI and saveToStorage
ApplyPreset(presetKey, accepted) ==
    /\ Quiet
    /\ LET applied == Presets_apply(presetKey, waveEngine, renderer, canvas)
       IN  /\ waveEngine' = applied.waveEngine
           /\ renderer' = applied.renderer
           /\ localStorage' =
                 IF applied.success
                 THEN saveToStorage(localStorage, applied.waveEngine,
                                    applied.renderer, accepted)
                 ELSE localStorage
           /\ saved' = IF applied.success /\ accepted
                       THEN [saved EXCEPT !.storage =
                                Snapshot(applied.waveEngine, applied.renderer)]
                       ELSE saved
           /\ lastOp' = Op("applyPreset", [presetKey |-> presetKey],
                           [success |-> applied.success, threw |-> applied.threw,
                            accepted |-> accepted])
    /\ UNCHANGED <<canvas, win, resizeTimer, pending, nextHandle, now, pc, cell,
                   frame>>
    /\ UNCHANGED <<held, exported, loading, notification>>

\* renderer.start()
Start ==
    /\ Quiet
    /\ nextHandle <= MaxHandle
    /\ pending' = requestAnimationFrame(pending, nextHandle, now)
    /\ renderer' = start(renderer, nextHandle)
    /\ nextHandle' = nextHandle + 1
    /\ lastOp' = Op("start", Undefined, Num(nextHandle))
    /\ UNCHANGED <<waveEngine, canvas, win, resizeTimer, now, pc, cell, frame>>
    /\ UNCHANGED page

\* app.stop(): renderer.stop()
Stop ==
    /\ Quiet
    /\ LET stopped == stop(renderer)
       IN  /\ renderer' = stopped.renderer
           /\ pending' = IF stopped.cancelled = Null THEN pending
                         ELSE cancelAnimationFrame(pending, stopped.cancelled)
           /\ lastOp' = Op("stop", Undefined, stopped.cancelled)
    /\ UNCHANGED <<waveEngine, canvas, win, resizeTimer, nextHandle, now, pc,
                   cell, frame>>
    /\ UNCHANGED page

\* The display refreshes: the host clock moves on, and the callbacks requested
\* so far become due.
Tick ==
    /\ Quiet
    /\ now < MaxTicks * FrameMs
    /\ now' = now + FrameMs
    /\ lastOp' = Op("refresh", Num(now + FrameMs), Undefined)
    /\ UNCHANGED <<waveEngine, renderer, canvas, win, resizeTimer, pending,
                   nextHandle, pc, cell, frame>>
    /\ UNCHANGED page

\* animate(timestamp) is called and enters render(timestamp): the elapsed time,
\* the clock, the background, and the loop variables at the head of the loops.
FrameStart ==
    /\ Idle
    /\ Due # {}
    /\ LET callback  == CHOOSE c \in Due : \A o \in Due : c.h <= o.h
           timestamp == Num(now)
           eng       == update(waveEngine, render_deltaTime(renderer, timestamp))
       IN  /\ pending' = pending \ {callback}
           /\ renderer' = [renderer EXCEPT !.lastTime = timestamp]
           /\ waveEngine' = eng
           /\ cell' = [layer |-> Sub(eng.config.layers, Num(1)),
                       gridY |-> 0, gridX |-> 0]
           /\ frame' = [timestamp  |-> timestamp,
                        updates    |-> 1,
                        clocks     |-> {},
                        samples    |-> 0,
                        background |-> calculateColor(renderer, eng,
                                           Neg(eng.config.amplitude), Num(1)),
                        cells      |-> <<>>,
                        outcome    |-> "none"]
           /\ lastOp' = Op("render", timestamp, Num(callback.h))
    /\ pc' = "render"
    /\ UNCHANGED <<canvas, win, resizeTimer, nextHandle, now>>
    /\ UNCHANGED page

\* The body of the innermost loop, for the cell (gridX, gridY) of cell.layer
RenderCell(osc, random) ==
    /\ pc = "render"
    /\ Ge(cell.layer, Num(0))
    /\ Lt(Num(cell.gridY), renderer.gridHeight)
    /\ Lt(Num(cell.gridX), renderer.gridWidth)
    /\ cell.gridX < MaxLoop
    /\ LET layerDepth == Div(cell.layer, MathMax(waveEngine.config.layers, Num(1)))
           waveValue  == calculateWave(waveEngine, cell.layer, osc)
           char       == selectCharacter(waveEngine, waveValue, cell.layer, random)
           thrown     == char.kind = "TypeError"
           skipped    == IsBlank(char)
           color      == IF thrown \/ skipped THEN NoColor
                         ELSE calculateColor(renderer, waveEngine, waveValue,
                                             layerDepth)
       IN  /\ frame' = [frame EXCEPT
                           !.clocks  = @ \cup {waveEngine.time},
                           !.samples = @ + 1,
                           !.cells   = Append(@, [layer |-> cell.layer,
                                                  gridY |-> cell.gridY,
                                                  gridX |-> cell.gridX,
                                                  char  |-> char,
                                                  drawn |-> ~thrown /\ ~skipped]),
                           !.outcome = IF thrown THEN "TypeError" ELSE @]
           /\ pc' = IF thrown THEN "idle" ELSE "render"
           /\ lastOp' = Op("cell", waveValue, [char |-> char, color |-> color])
    /\ cell' = [cell EXCEPT !.gridX = @ + 1]
    /\ UNCHANGED <<waveEngine, renderer, canvas, win, resizeTimer, pending,
                   nextHandle, now>>
    /\ UNCHANGED page

\* gridX < this.gridWidth is false: the next row
RenderNextRow ==
    /\ pc = "render"
    /\ Ge(cell.layer, Num(0))
    /\ Lt(Num(cell.gridY), renderer.gridHeight)
    /\ ~Lt(Num(cell.gridX), renderer.gridWidth)
    /\ cell.gridY < MaxLoop
    /\ cell' = [cell EXCEPT !.gridY = @ + 1, !.gridX = 0]
    /\ lastOp' = Op("row", Num(cell.gridY + 1), Undefined)
    /\ UNCHANGED <<waveEngine, renderer, canvas, win, resizeTimer, pending,
                   nextHandle, now, pc, frame>>
    /\ UNCHANGED page

\* gridY < this.gridHeight is false: the next layer
RenderNextLayer ==
    /\ pc = "render"
    /\ Ge(cell.layer, Num(0))
    /\ ~Lt(Num(cell.gridY), renderer.gridHeight)
    /\ cell' = [layer |-> Sub(cell.layer, Num(1)), gridY |-> 0, gridX |-> 0]
    /\ lastOp' = Op("layer", Sub(cell.layer, Num(1)), Undefined)
    /\ UNCHANGED <<waveEngine, renderer, canvas, win, resizeTimer, pending,
                   nextHandle, now, pc, frame>>
    /\ UNCHANGED page

\* layer >= 0 is false: applyVignette(), render() returns, and animate requests
\* the next frame.  An exception leaves animate before the request.
RenderEnd ==
    /\ pc = "render"
    /\ ~Ge(cell.layer, Num(0))
    /\ LET vignette == applyVignette(renderer, canvas)
       IN  IF vignette = "IndexSizeError"
           THEN /\ frame' = [frame EXCEPT !.outcome = vignette]
                /\ lastOp' = Op("animate", frame.timestamp, Undefined)
                /\ UNCHANGED <<renderer, pending, nextHandle>>
           ELSE /\ frame' = [frame EXCEPT !.outcome = "returned"]
                /\ pending' = requestAnimationFrame(pending, nextHandle, now)
                /\ renderer' = start(renderer, nextHandle)
                /\ nextHandle' = nextHandle + 1
                /\ lastOp' = Op("animate", frame.timestamp, Num(nextHandle))
    /\ pc' = "idle"
    /\ UNCHANGED <<waveEngine, canvas, win, resizeTimer, now, cell>>
    /\ UNCHANGED page

-----------------------------------------------------------------------------
(* The application after new App(), with no stored item and no hash in the
   address: engine, renderer, controls, and the loop started *)

WinSizes == {[width |-> Num(32), height |-> Num(16)]}

Init ==
    \E seed \in Seeds, w \in WinSizes :
        LET made == Renderer(w)
        IN  /\ waveEngine = WaveEngine(seed)
            /\ renderer = start(made.renderer, 1)
            /\ canvas = made.canvas
            /\ win = w
            /\ resizeTimer = FALSE
            /\ pending = requestAnimationFrame({}, 1, 0)
            /\ nextHandle = 2
            /\ now = 0
            /\ pc = "idle"
            /\ cell = NoCell
            /\ frame = NoFrame
            /\ lastOp = Op("new", Undefined, Undefined)
            /\ held = NoObject
            /\ localStorage = NoText
            /\ exported = [file |-> NoText, url |-> NoHash]
            /\ loading = NoLoading
            /\ notification = NoNotice
            /\ saved = [storage |-> NoSnapshot, file |-> NoSnapshot,
                        url |-> NoSnapshot]

\* The animation loop with its controls
Next ==
    \/ Start
    \/ Stop
    \/ Tick
    \/ FrameStart
    \/ \E osc \in AppOscillations, random \in Randoms : RenderCell(osc, random)
    \/ RenderNextRow
    \/ RenderNextLayer
    \/ RenderEnd
    \/ \E p \in AppWavePartials : UpdateWaveConfig(p)
    \/ \E p \in AppRenderPartials : UpdateRenderConfig(p)
    \/ ResetTime

Spec == Init /\ [][Next]_vars

\* Painting: frames over varying waves
PaintNext ==
    \/ Tick
    \/ FrameStart
    \/ \E osc \in PaintOscillations : RenderCell(osc, Num(0))
    \/ RenderNextRow
    \/ RenderNextLayer
    \/ RenderEnd
    \/ \E p \in PaintPartials : UpdateWaveConfig(p)

PaintSpec == Init /\ [][PaintNext]_vars

\* The engine on its own: its operations called in any order
EngineNext ==
    \/ \E p \in EnginePartials : UpdateWaveConfig(p)
    \/ \E name \in SetNames : SetCharacterSet(name)
    \/ ResetTime
    \/ \E dt \in {Num(0), Fin(1, 2)} : Update(dt)

EngineSpec == Init /\ [][EngineNext]_vars

\* The glyph mapping: configuration changes, palette changes and samples
SelectNext ==
    \/ \E p \in SelectPartials : UpdateWaveConfig(p)
    \/ \E name \in PaletteNames \cup {"retro"} : SetCharacterSet(name)
    \/ \E layer \in LayersOf(waveEngine), osc \in Oscillations, random \in Randoms :
          Sample(layer, osc, random)

SelectSpec == Init /\ [][SelectNext]_vars

\* Band selection: samples on and between the thresholds
BandNext ==
    \/ \E p \in BandPartials : UpdateWaveConfig(p)
    \/ \E layer \in LayersOf(waveEngine), osc \in BandOscillations, random \in Randoms :
          Sample(layer, osc, random)

BandSpec == Init /\ [][BandNext]_vars

\* Foam: thresholds on both sides of the surface band's lower edge, 0.75, and
\* amplitudes of either sign
FoamNext ==
    \/ \E foamThreshold \in {Fin(3, 4), Fin(4, 5), Num(0 - 1), NInf, NaN} :
          UpdateWaveConfig(Partial("foamThreshold", foamThreshold))
    \/ \E amplitude \in {Num(2), Num(0), Fin(0 - 1, 2), PInf} :
          UpdateWaveConfig(Partial("amplitude", amplitude))
    \/ \E layer \in LayersOf(waveEngine), osc \in BandOscillations, random \in Randoms :
          Sample(layer, osc, random)

FoamSpec == Init /\ [][FoamNext]_vars

\* The noise field: constructions
NoiseNext ==
    \E seed \in NoiseSeeds, r1, r2 \in DefaultSeeds : NewSimplexNoise(seed, r1, r2)

NoiseSpec == Init /\ [][NoiseNext]_vars

\* Lookups: instances are constructed and sampled
LookupNext ==
    \/ \E seed \in LookupSeeds, r \in DefaultSeeds : NewSimplexNoise(seed, r, r)
    \/ \E xin, yin, zin \in Coordinates : Noise3D(xin, yin, zin)

LookupSpec == Init /\ [][LookupNext]_vars

\* Both configuration records: updates of each, with the clock advanced and
\* the palette changed in between
ConfigNext ==
    \/ \E p \in ConfigWavePartials : UpdateWaveConfig(p)
    \/ \E p \in ConfigRenderPartials : UpdateRenderConfig(p)
    \/ SetCharacterSet("minimal")
    \/ Update(Fin(1, 2))

ConfigSpec == Init /\ [][ConfigNext]_vars

\* Configuration objects handed out: a caller keeps one, assigns to it, and
\* the components are updated meanwhile
CopyNext ==
    \/ GetWaveConfig
    \/ GetRenderConfig
    \/ \E key \in {"amplitude", "hue"}, value \in {Num(9), Num(0)} : AssignHeld(key, value)
    \/ \E p \in {Partial("amplitude", Num(2)), Partial("speed", Num(2))} :
          UpdateWaveConfig(p)
    \/ \E p \in {Partial("hue", Num(120)), Partial("cellSize", Num(8))} :
          UpdateRenderConfig(p)

CopySpec == Init /\ [][CopyNext]_vars

\* Loading: files and URL hashes, good and bad, between changes of both
\* configurations and of the palette
LoadNext ==
    \/ \E text \in FileTexts : LoadJSON(text)
    \/ LoadJSONResumed(TRUE)
    \/ \E hash \in Hashes : LoadFromURL(hash)
    \/ UpdateWaveConfig(Partial("speed", Num(2)))
    \/ UpdateRenderConfig(Partial("contrast", Num(2)))
    \/ SetCharacterSet("dense")

LoadSpec == Init /\ [][LoadNext]_vars

\* The schema: documents with and without undeclared fields are loaded, and
\* the configuration is read, stored, downloaded and shared afterwards
SchemaNext ==
    \/ \E text \in SchemaTexts : LoadJSON(text)
    \/ LoadJSONResumed(TRUE)
    \/ LoadFromURL(btoa(ExtraText))
    \/ LoadFromStorage
    \/ GetWaveConfig
    \/ GetRenderConfig
    \/ SaveToStorage(TRUE)
    \/ SaveJSON
    \/ GenerateShareURL(TRUE)

SchemaSpec == Init /\ [][SchemaNext]_vars

\* Round trips: the configuration is written to the store, to a file and to
\* a share URL, changes, and is read back from each; documents from elsewhere
\* are loaded in between
RoundNext ==
    \/ SaveToStorage(TRUE)
    \/ SaveJSON
    \/ GenerateShareURL(TRUE)
    \/ LoadFromStorage
    \/ exported.file # NoText /\ LoadJSON(exported.file)
    \/ LoadJSON(HugeText)
    \/ LoadJSONResumed(TRUE)
    \/ LoadFromURL(exported.url)
    \/ UpdateRenderConfig(Partial("cellSize", Num(8)))

RoundSpec == Init /\ [][RoundNext]_vars

\* Settings: every user change of the control panel, with a store that takes
\* the write or refuses it
PersistNext ==
    \/ UpdateWaveConfig(Partial("amplitude", Num(2)))
    \/ \E accepted \in BOOLEAN : SaveToStorage(accepted)
    \/ \E first, second \in BOOLEAN : SelectCharacterSet("dense", first, second)
    \/ \E event \in {"click", "keydown"}, accepted \in BOOLEAN :
          RegenerateSeed(event, Num(7), accepted)
    \/ \E presetKey \in {"sunset", "none"}, accepted \in BOOLEAN :
          ApplyPreset(presetKey, accepted)
    \/ \E text \in {WaveOnlyText, MalformedText} : LoadJSON(text)
    \/ \E accepted \in BOOLEAN : LoadJSONResumed(accepted)

PersistSpec == Init /\ [][PersistNext]_vars

\* Presets: the preset buttons, with the seed regenerated, the clock advanced
\* and the palette changed in between
PresetNext ==
    \/ \E presetKey \in DOMAIN Presets_themes \cup {"retro", "constructor"} :
          ApplyPreset(presetKey, TRUE)
    \/ UpdateWaveConfig(Partial("noiseSeed", Num(42)))
    \/ SetCharacterSet("unicode")
    \/ Update(Fin(1, 2))

PresetSpec == Init /\ [][PresetNext]_vars

\* Notices: exports that show a notice, a configuration change between them,
\* and the time that passes
NotifyNext ==
    \/ SaveJSON
    \/ \E copied \in BOOLEAN : GenerateShareURL(copied)
    \/ \E name \in {"dense", "minimal"} : SetCharacterSet(name)
    \/ \E ms \in {1000, 2000, 3000} : Elapse(ms)
    \/ NotificationTimeout

NotifySpec == Init /\ [][NotifyNext]_vars

\* The colour mapping: configuration changes and colours
ColorNext ==
    \/ \E p \in ColorWavePartials : UpdateWaveConfig(p)
    \/ \E p \in ColorRenderPartials : UpdateRenderConfig(p)
    \/ \E layer \in LayersOf(waveEngine), osc \in ColorOscillations : Color(layer, osc)
    \/ BackgroundColor

ColorSpec == Init /\ [][ColorNext]_vars

\* The grid: window resizes and render configuration changes
GridNext ==
    \/ \E w \in GridWindows : WindowResize(w)
    \/ ResizeTimeout
    \/ \E p \in GridPartials : UpdateRenderConfig(p)

GridSpec == Init /\ [][GridNext]_vars

-----------------------------------------------------------------------------
(* Properties of the wave engine *)

\* C1: for any finite wave value and any configuration reachable through
\* updateConfig, selectCharacter returns a character that is an element of one
\* of the six bands of the active character set, and the band index it
\* computes lies in [0, bandLength-1].
C1_GlyphInActivePalette ==
    lastOp.op = "selectCharacter" =>
        LET ret == lastOp.ret
            set == waveEngine.currentCharacterSet
        IN  /\ IsFinite(lastOp.arg)
            /\ ret.kind = "char"
            /\ ret.band \in Bands
            /\ set \in DOMAIN characterSets
            /\ IsInteger(ret.index)
            /\ ret.index.n \in 0..(Len(characterSets[set][ret.band]) - 1)
            /\ ret.ch = characterSets[set][ret.band][ret.index.n + 1]

\* C2: setCharacterSet with a name that is not one of the four palette
\* identifiers is a no-op, so the active character set is always one of
\* classic, minimal, dense, unicode.
C2_ActiveSetIsPalette ==
    /\ waveEngine.currentCharacterSet \in {"classic", "minimal", "dense", "unicode"}
    /\ (lastOp.op = "setCharacterSet"
        /\ lastOp.arg.setName \notin {"classic", "minimal", "dense", "unicode"})
          => waveEngine.currentCharacterSet # lastOp.arg.setName

\* C7: updateConfig({}) changes nothing of the engine: no configuration field,
\* not the clock, not the active character set, and the noise field is not
\* reconstructed; calling it again changes nothing either.
C7_EmptyUpdateIsNoOp ==
    [][(lastOp'.op = "WaveEngine.updateConfig" /\ lastOp'.arg = Empty)
          => waveEngine' = waveEngine]_vars

C7_Witness ==
    /\ lastOp.op = "WaveEngine.updateConfig"
    /\ lastOp.arg = Empty
    /\ waveEngine.noise.inst > 1
    /\ waveEngine.time # Num(0)
    /\ waveEngine.currentCharacterSet # "classic"

\* C8: updateConfig(partial) constructs a new noise field, seeded with the new
\* noiseSeed, exactly when noiseSeed is present in the partial; otherwise the
\* noise field instance stays the one it was.
C8_NoiseRebuiltIffSeedGiven ==
    [][lastOp'.op = "WaveEngine.updateConfig" =>
          IF Has(lastOp'.arg, "noiseSeed")
          THEN /\ waveEngine'.noise.inst = waveEngine.noise.inst + 1
               /\ waveEngine'.noise.seed = lastOp'.arg.noiseSeed
               /\ waveEngine'.config.noiseSeed = lastOp'.arg.noiseSeed
          ELSE waveEngine'.noise = waveEngine.noise]_vars

C8_Witness ==
    /\ lastOp.op = "WaveEngine.updateConfig"
    /\ Has(lastOp.arg, "noiseSeed")
    /\ waveEngine.noise.seed = Num(42)
    /\ waveEngine.noise.inst = 3

-----------------------------------------------------------------------------
(* Properties of the renderer and of the animation loop *)

FiniteConfig(config) == \A key \in DOMAIN config : IsFinite(config[key])

\* C3: calculateColor yields three channels that are each an integer in
\* [0,255], for any finite waveValue, layer depth, wave amplitude, depthEffect,
\* hue, saturation, brightness and contrast.
C3_ChannelsInByteRange ==
    (/\ lastOp.op = "calculateColor"
     /\ IsFinite(lastOp.arg.waveValue)
     /\ IsFinite(lastOp.arg.layerDepth)
     /\ FiniteConfig(waveEngine.config)
     /\ FiniteConfig(renderer.config))
        => \A i \in 1..3 :
              /\ IsInteger(lastOp.ret.rgb[i])
              /\ lastOp.ret.rgb[i].n \in 0..255

\* C4: within one frame the clock is advanced exactly once, before any wave
\* sample is taken; every calculateWave call of the frame observes the same
\* clock value; and from the first sample to the return of render the engine
\* (configuration, clock, noise, character set) is not changed.
C4_OneClockPerFrame ==
    [][/\ lastOp'.op = "render" =>
            /\ pc' = "render"
            /\ frame'.updates = 1
            /\ frame'.samples = 0
       /\ pc' = "render" =>
            /\ frame'.updates = 1
            /\ frame'.clocks \subseteq {waveEngine'.time}
       /\ pc = "render" =>
            /\ waveEngine' = waveEngine
            /\ frame'.updates = frame.updates
            /\ frame'.clocks \subseteq {waveEngine.time}]_vars

C4_Witness ==
    /\ pc = "idle"
    /\ frame.outcome = "returned"
    /\ frame.samples = 6
    /\ frame.clocks = {waveEngine.time}
    /\ waveEngine.time # Num(0)

\* C5: every frame runs to completion: for any wave configuration, render
\* configuration and character set reachable through updateConfig and
\* setCharacterSet, render(timestamp) terminates, reaching the vignette step
\* and returning without raising an error.  (A loop that has run MaxLoop times
\* is running over a grid without end.)
C5_FrameRunsToCompletion ==
    /\ frame.outcome \in {"none", "returned"}
    /\ pc = "render" => cell.gridX < MaxLoop /\ cell.gridY < MaxLoop

\* C6: after stop() has returned, no further frame is rendered until start()
\* is called again, whatever start() calls, stop() calls and animation-frame
\* callbacks came before.  (animationId is null exactly from the return of a
\* stop() that found a request to the next start() or frame.)
C6_NoFrameAfterStop ==
    [][renderer.animationId = Null => lastOp'.op # "render"]_vars

\* C9 (as stated): the animation clock never decreases except through
\* resetTime().
C9_ClockNeverDecreases ==
    [][lastOp'.op # "resetTime" => Ge(waveEngine'.time, waveEngine.time)]_vars

\* C9 (amended): each frame adds elapsedSeconds * timeSpeed to the clock, with
\* elapsedSeconds = (timestamp - previous frame timestamp) / 1000 and the first
\* frame adding 0; resetTime() sets the clock to 0; no other operation changes
\* it; so the clock never decreases in a frame whose timeSpeed is not
\* negative.  updateConfig accepts a negative timeSpeed, and a frame then
\* moves the clock back.
C9_ClockAdvancesBySpeed ==
    [][/\ lastOp'.op = "render" =>
            LET elapsedSeconds ==
                    IF renderer.lastTime = Num(0) THEN Num(0)
                    ELSE Div(Sub(lastOp'.arg, renderer.lastTime), Num(1000))
            IN  /\ waveEngine'.time =
                      Add(waveEngine.time,
                          Mul(elapsedSeconds, waveEngine.config.timeSpeed))
                /\ Ge(waveEngine.config.timeSpeed, Num(0))
                      => Ge(waveEngine'.time, waveEngine.time)
       /\ lastOp'.op = "resetTime" => waveEngine'.time = Num(0)
       /\ lastOp'.op \notin {"render", "resetTime"}
            => waveEngine'.time = waveEngine.time]_vars

C9_Witness ==
    /\ lastOp.op = "render"
    /\ Ge(waveEngine.config.timeSpeed, Num(0))
    /\ Gt(waveEngine.time, Num(0))
    /\ waveEngine.time = Mul(Fin(FrameMs, 1000), waveEngine.config.timeSpeed)

\* C10: after every Renderer operation (construction, resizeCanvas,
\* updateConfig with any partial) gridWidth = ceil(canvas.width / cellSize) and
\* gridHeight = ceil(canvas.height / cellSize) for the current cellSize and
\* canvas size: the least numbers of cells that cover the canvas.  cellSize 16
\* on a 1920 by 1080 canvas gives 120 by 68 cells.
Covers(cells, size, cellSize) ==
    /\ IsInteger(cells)
    /\ Ge(Mul(cells, cellSize), size)
    /\ Lt(Mul(Sub(cells, Num(1)), cellSize), size)

C10_GridCoversCanvas ==
    /\ renderer.gridWidth = MathCeil(Div(canvas.width, renderer.config.cellSize))
    /\ renderer.gridHeight = MathCeil(Div(canvas.height, renderer.config.cellSize))
    /\ Covers(renderer.gridWidth, canvas.width, renderer.config.cellSize)
    /\ Covers(renderer.gridHeight, canvas.height, renderer.config.cellSize)
    /\ (/\ canvas = [width |-> Num(1920), height |-> Num(1080)]
        /\ renderer.config.cellSize = Num(16))
          => renderer.gridWidth = Num(120) /\ renderer.gridHeight = Num(68)
    /\ \A w \in GridWindows :
          LET made == Renderer(w)
          IN  /\ Covers(made.renderer.gridWidth, made.canvas.width, Num(16))
              /\ Covers(made.renderer.gridHeight, made.canvas.height, Num(16))

C10_Witness ==
    /\ lastOp.op = "Renderer.updateConfig"
    /\ Has(lastOp.arg, "cellSize")
    /\ canvas = [width |-> Num(1920), height |-> Num(1080)]
    /\ renderer.config.cellSize = Num(16)
    /\ renderer.gridWidth = Num(120)
    /\ renderer.gridHeight = Num(68)

-----------------------------------------------------------------------------
(* Painting order *)

\* the cells of the grid, for a finite grid
GridCells ==
    {c \in (0..MaxLoop) \X (0..MaxLoop) :
        Lt(Num(c[1]), renderer.gridWidth) /\ Lt(Num(c[2]), renderer.gridHeight)}

\* the visits of a frame to the cell c, and those that painted a glyph
VisitsAt(c) ==
    {i \in 1..Len(frame.cells) :
        frame.cells[i].gridX = c[1] /\ frame.cells[i].gridY = c[2]}

IsSpace(char) == char.kind = "char" /\ char.ch = 32

\* C11: layers are painted back to front, from index layers-1 down to 0, each
\* layer covering the whole grid before the next starts, and blank glyphs are
\* skipped: after a frame, each cell shows the glyph last painted by the
\* lowest-index layer whose selected glyph was not the space character, and
\* only the background if every layer selected a space for it.
C11_BackToFrontSkippingBlanks ==
    LET log == frame.cells
    IN  /\ \A i \in 1..Len(log) : log[i].drawn <=> ~IsSpace(log[i].char)
        /\ \A i, j \in 1..Len(log) :
              i < j =>
                 \/ Gt(log[i].layer, log[j].layer)
                 \/ /\ log[i].layer = log[j].layer
                    /\ \/ log[i].gridY < log[j].gridY
                       \/ log[i].gridY = log[j].gridY /\ log[i].gridX < log[j].gridX
        /\ (lastOp.op = "animate" /\ frame.outcome = "returned") =>
              \A c \in GridCells :
                 LET visits  == VisitsAt(c)
                     painted == {i \in visits : log[i].drawn}
                     inked   == {i \in visits : ~IsSpace(log[i].char)}
                 IN  /\ {log[i].layer : i \in visits} = LayersOf(waveEngine)
                     /\ Cardinality(visits) = Cardinality(LayersOf(waveEngine))
                     /\ inked = {} => painted = {}
                     /\ inked # {} =>
                           LET top == CHOOSE i \in painted : \A k \in painted : k <= i
                           IN  /\ painted # {}
                               /\ \A k \in inked : Le(log[top].layer, log[k].layer)
                               /\ ~IsSpace(log[top].char)

C11_Witness ==
    /\ lastOp.op = "animate"
    /\ frame.outcome = "returned"
    /\ Cardinality(GridCells) = 2
    /\ \E c \in GridCells :
          \E i, j \in VisitsAt(c) :
             /\ frame.cells[i].layer = Num(1) /\ frame.cells[i].drawn
             /\ frame.cells[j].layer = Num(0) /\ IsSpace(frame.cells[j].char)
    /\ \E c \in GridCells :
          \A i \in VisitsAt(c) : IsSpace(frame.cells[i].char)

-----------------------------------------------------------------------------
(* Band selection *)

\* x > y for two finite numbers
StrictlyAbove(x, y) == x.n * y.d > y.n * x.d

\* n = clamp((waveValue / amplitude + 1) / 2, 0, 1), for a finite quotient
NormalizedOf(waveValue, amplitude) ==
    LET q == Div(Add(Div(waveValue, amplitude), Num(1)), Num(2))
    IN  IF ~IsFinite(q) THEN q
        ELSE IF StrictlyAbove(Num(0), q) THEN Num(0)
        ELSE IF StrictlyAbove(q, Num(1)) THEN Num(1)
        ELSE q

\* C12: with foamThreshold = 1.0, selectCharacter never selects from the foam
\* band, whatever the wave value and the other configuration values.
C12_NoFoamAtThresholdOne ==
    (lastOp.op = "selectCharacter" /\ waveEngine.config.foamThreshold = Num(1))
        => lastOp.ret.band # "foam"

C12_Witness ==
    /\ lastOp.op = "selectCharacter"
    /\ waveEngine.config.foamThreshold = Num(1)
    /\ Gt(lastOp.arg, Num(0))
    /\ NormalizedOf(lastOp.arg, waveEngine.config.amplitude) = Num(1)
    /\ lastOp.ret.band = "surface"

\* C13: band selection follows the priority order on
\* n = clamp((waveValue/amplitude + 1)/2, 0, 1): foam if n > foamThreshold and
\* waveValue > 0; otherwise surface if n > 0.75; otherwise shallow if n > 0.55;
\* otherwise medium if n > 0.35; otherwise deep if n > 0.15; otherwise sky.
\* For every n in [0,1] exactly one band is chosen, and every threshold is
\* strict: n equal to a threshold falls into the lower band.
C13_BandByPriority ==
    LET n == NormalizedOf(lastOp.arg, waveEngine.config.amplitude)
    IN  (lastOp.op = "selectCharacter" /\ IsFinite(n)) =>
          lastOp.ret.band =
             IF StrictlyAbove(n, waveEngine.config.foamThreshold)
                /\ StrictlyAbove(lastOp.arg, Num(0)) THEN "foam"
             ELSE IF StrictlyAbove(n, Fin(75, 100)) THEN "surface"
             ELSE IF StrictlyAbove(n, Fin(55, 100)) THEN "shallow"
             ELSE IF StrictlyAbove(n, Fin(35, 100)) THEN "medium"
             ELSE IF StrictlyAbove(n, Fin(15, 100)) THEN "deep"
             ELSE "sky"

C13_Witness ==
    /\ lastOp.op = "selectCharacter"
    /\ waveEngine.config.foamThreshold = Fin(9, 10)
    /\ NormalizedOf(lastOp.arg, waveEngine.config.amplitude) = Fin(75, 100)
    /\ lastOp.ret.band = "shallow"


-----------------------------------------------------------------------------
\* C14: noise determinism.  Two SimplexNoise instances constructed with the
\* same seed have identical tables p, perm and permMod12, whatever
\* Math.random() would have produced at either construction: the tables, the
\* only instance state that noise2D and noise3D read, depend on nothing but
\* the seed.
C14_SameSeedSameTables ==
    (/\ lastOp.op = "new SimplexNoise"
     /\ lastOp.arg.seed # Undefined \/ lastOp.arg.first = lastOp.arg.second)
        => lastOp.ret.first = lastOp.ret.second

C14_Witness ==
    /\ lastOp.op = "new SimplexNoise"
    /\ lastOp.arg.seed = Num(999999)
    /\ lastOp.arg.first # lastOp.arg.second
    /\ lastOp.ret.first.p # [i \in 0..255 |-> i]
    /\ lastOp.ret.first = lastOp.ret.second


-----------------------------------------------------------------------------
(* Properties of the configuration records *)

RenderKeys == DOMAIN RendererFields.config

\* the declared fields of a record after a partial merge: the partial's value
\* where it names the field, the prior value where it does not
MergedOver(keys, before, partial, after) ==
    \A k \in keys :
        after[k] = IF k \in DOMAIN partial THEN partial[k] ELSE before[k]

\* C15: both configuration records are updated by partial merge.  After
\* WaveEngine.updateConfig(partial) or Renderer.updateConfig(partial) every
\* field named in the partial has the given value and every field not named in
\* it keeps its prior value; the wave update leaves the render configuration,
\* the clock and the character set unchanged, and the render update leaves the
\* wave configuration unchanged.
C15_PartialMerge ==
    [][/\ lastOp'.op = "WaveEngine.updateConfig" =>
            /\ MergedOver(WaveKeys, waveEngine.config, lastOp'.arg, waveEngine'.config)
            /\ renderer'.config = renderer.config
            /\ waveEngine'.time = waveEngine.time
            /\ waveEngine'.currentCharacterSet = waveEngine.currentCharacterSet
       /\ lastOp'.op = "Renderer.updateConfig" =>
            /\ MergedOver(RenderKeys, renderer.config, lastOp'.arg, renderer'.config)
            /\ waveEngine'.config = waveEngine.config]_vars

\* a wave update of several fields after the clock, the palette, another wave
\* field and the render configuration have left their defaults
C15_Witness ==
    /\ lastOp.op = "WaveEngine.updateConfig"
    /\ DOMAIN lastOp.arg = {"speed", "foamThreshold"}
    /\ waveEngine.config.speed = Num(2)
    /\ waveEngine.config.amplitude = Num(2)
    /\ Gt(waveEngine.time, Num(0))
    /\ waveEngine.currentCharacterSet = "minimal"
    /\ renderer.config.hue = Num(120)
    /\ renderer.config.contrast = Num(2)


-----------------------------------------------------------------------------
(* Properties of loading and saving *)

\* text that cannot be loaded: it is not JSON, or it is the text null, whose
\* members cannot be read
Unloadable(text) == text.syntax \in {"malformed", "null"}

\* C17: if loading a configuration fails (the file text or the URL hash is
\* malformed, or a step of applying it raises), the failure is caught, an
\* error notice is shown for a file load, and the wave configuration, the
\* render configuration, the noise field and the active character set are
\* exactly as they were before the attempt: nothing is applied in part.
C17_FailedLoadChangesNothing ==
    [][/\ (lastOp'.op = "loadJSON resumed" /\ Unloadable(lastOp'.arg)) =>
            /\ waveEngine' = waveEngine
            /\ renderer' = renderer
            /\ notification'.message = "Failed to load configuration"
            /\ notification'.type = "error"
            /\ notification'.show
       /\ (lastOp'.op = "loadFromURL"
           /\ (lastOp'.arg.form = "not base64" \/ Unloadable(lastOp'.arg.text))) =>
            /\ waveEngine' = waveEngine
            /\ renderer' = renderer
       /\ (lastOp'.op \in {"loadJSON resumed", "loadFromURL"}
           /\ (waveEngine' # waveEngine \/ renderer' # renderer)) =>
            ~lastOp'.ret.threw]_vars

\* a file that is not JSON was refused after the wave configuration, the
\* render configuration and the palette had all left their defaults
C17_Witness ==
    /\ lastOp.op = "loadJSON resumed"
    /\ lastOp.arg = MalformedText
    /\ notification.type = "error"
    /\ waveEngine.config.amplitude = Fin(3, 2)
    /\ waveEngine.config.speed = Num(2)
    /\ renderer.config.hue = Num(120)
    /\ waveEngine.currentCharacterSet = "dense"


\* the fields a text's wave and visual members may carry
DeclaredOnly(text) ==
    /\ DOMAIN text.wave.fields \subseteq WaveKeys
    /\ DOMAIN text.visual.fields \subseteq RenderKeys

\* C18: unrecognized fields in a loaded configuration are ignored.  After a
\* document carrying fields outside the declared schema was loaded, the wave
\* and the render configuration contain only their declared fields, and so do
\* the objects getConfig() returns, the stored item, the downloaded file and
\* the share URL.
C18_UnrecognizedFieldsIgnored ==
    /\ DOMAIN waveEngine.config \subseteq WaveKeys
    /\ DOMAIN renderer.config \subseteq RenderKeys
    /\ DOMAIN held.obj \subseteq WaveKeys \cup RenderKeys
    /\ DeclaredOnly(localStorage)
    /\ DeclaredOnly(exported.file)
    /\ DeclaredOnly(exported.url.text)


\* the components hold what a snapshot recorded: both configurations and the
\* character set, the noise field built from the seed, the grid from the cell
\* size
Restored(snapshot) ==
    /\ waveEngine.config = snapshot.wave
    /\ renderer.config = snapshot.visual
    /\ waveEngine.currentCharacterSet = snapshot.characterSet
    /\ waveEngine.noise.seed = snapshot.wave.noiseSeed
    /\ renderer.gridWidth = MathCeil(Div(canvas.width, snapshot.visual.cellSize))
    /\ renderer.gridHeight = MathCeil(Div(canvas.height, snapshot.visual.cellSize))

\* C19: configuration round trip.  Serializing the current configuration
\* (saveToStorage, saveJSON or generateShareURL) and later loading that text
\* back (loadFromStorage, loadJSON or loadFromURL), from any state in between,
\* restores a wave configuration, a render configuration and a character set
\* equal to those at serialization time, with the noise field rebuilt from the
\* restored noiseSeed and the grid recomputed for the restored cellSize.
C19_RoundTrip ==
    /\ (lastOp.op = "loadFromStorage" /\ saved.storage.taken
        /\ lastOp.arg = localStorage) => Restored(saved.storage)
    /\ (lastOp.op = "loadJSON resumed" /\ saved.file.taken
        /\ lastOp.arg = exported.file) => Restored(saved.file)
    /\ (lastOp.op = "loadFromURL" /\ saved.url.taken
        /\ lastOp.arg = exported.url) => Restored(saved.url)


\* the last operation was a completed user change: a slider's or select's
\* 'change' event, a character-set selection, a seed regeneration, a preset
\* that was applied, a JSON load that succeeded
CompletedChange ==
    \/ lastOp.op \in {"saveToStorage", "characterSet change", "regenerateSeed"}
    \/ lastOp.op = "applyPreset" /\ lastOp.ret.success
    \/ lastOp.op = "loadJSON resumed" /\ ~lastOp.ret.threw

\* the item 'asciiWavesConfig' is the text of the current
\* { wave, visual, characterSet }
StoredIsCurrent ==
    localStorage = Text("object",
                        Member(StringifyObject(waveEngine.config)),
                        Member(StringifyObject(renderer.config)),
                        Named(waveEngine.currentCharacterSet))

-----------------------------------------------------------------------------
(* Properties of the permutation table *)

\* what the constructor is to leave in an instance: p holding each of 0..255
\* exactly once, perm repeating it over 512 entries, permMod12 being perm
\* modulo 12
IsPermutationTable(t) ==
    /\ DOMAIN t.p = 0..255
    /\ {t.p[i] : i \in 0..255} = 0..255
    /\ \A i \in 0..511 : t.perm[i] = t.p[i % 256] /\ t.permMod12[i] = t.perm[i] % 12

\* C21: for every integer seed the table p built by the SimplexNoise
\* constructor is a permutation of 0..255, perm[i] = p[i mod 256] and
\* permMod12[i] = perm[i] mod 12 for all i in 0..511.  The constructor does
\* not keep this for a negative seed: the generator's remainder is negative
\* there, the swap index falls below 0 and a 0 is stored in place of a value.
C21_PermutationForIntegerSeed ==
    (lastOp.op = "new SimplexNoise" /\ lastOp.arg.seed # Undefined)
        => IsPermutationTable(lastOp.ret.first)

\* the tables of a seed that is not negative are a permutation
C21_PermutationForNaturalSeed ==
    (/\ lastOp.op = "new SimplexNoise"
     /\ lastOp.arg.seed # Undefined
     /\ lastOp.arg.seed.n >= 0)
        => IsPermutationTable(lastOp.ret.first)


-----------------------------------------------------------------------------
(* Properties of the engine's noise field *)

\* C22: the noise field of a WaveEngine corresponds to its configured seed.
\* After construction and after any sequence of updateConfig calls (and of the
\* engine's other operations) the noise instance in use is the one constructed
\* from the current value of config.noiseSeed.
C22_NoiseIsOfConfiguredSeed ==
    waveEngine.noise.seed = waveEngine.config.noiseSeed

\* a seed was given, the noise rebuilt, and a later call changed another field
C22_Witness ==
    /\ lastOp.op = "WaveEngine.updateConfig"
    /\ ~Has(lastOp.arg, "noiseSeed")
    /\ lastOp.arg # Empty
    /\ waveEngine.config.noiseSeed = Num(42)
    /\ waveEngine.noise.inst = 3


\* an index that a table of 512 entries holds
IsTableIndex(index) == index.k = "fin" /\ index.d = 1 /\ index.n \in 0..511

\* C23: in noise3D every table lookup is in bounds.  ii, jj and kk lie in
\* [0, 255] and the simplex offsets in {0, 1}; each index into perm and
\* permMod12, such as ii + i1 + perm[jj + j1 + perm[kk + k1]], lies in
\* [0, 511]; each gradient index gi0..gi3 lies in [0, 11].
C23_LookupsInBounds ==
    lastOp.op = "noise3D" =>
        /\ {lastOp.ret.ii, lastOp.ret.jj, lastOp.ret.kk} \subseteq 0..255
        /\ \A o \in 1..2 :
               {lastOp.ret.offsets[o].i, lastOp.ret.offsets[o].j,
                lastOp.ret.offsets[o].k} \subseteq {0, 1}
        /\ \A c \in 1..4 :
               /\ \A r \in 1..3 : IsTableIndex(lastOp.ret.corners[c].reads[r])
               /\ lastOp.ret.corners[c].gi.k = "fin"
               /\ lastOp.ret.corners[c].gi.d = 1
               /\ lastOp.ret.corners[c].gi.n \in 0..11

\* a sample left of the origin and beyond the table's period: the cell index is
\* negative, and an index read lies in the second half of perm
C23_Witness ==
    /\ lastOp.op = "noise3D"
    /\ lastOp.arg.xin = Num(0 - 300)
    /\ lastOp.ret.cell[1].k = "fin"
    /\ lastOp.ret.cell[1].n < 0 - 256
    /\ \E c \in 1..4 : lastOp.ret.corners[c].reads[3].n > 255


-----------------------------------------------------------------------------
(* Properties of the presets *)

PresetNames == {"ocean", "sunset", "storm", "night", "tropical", "terminal"}

\* what an applyPreset step is to do: for a key that names no preset, return
\* false, raise nothing and change nothing; for a preset name, return true and
\* set the preset's wave fields, visual fields and character set, the seed, the
\* noise field and the clock staying as they were
AppliesAsDeclared(key, ret, eng, r, engAfter, rAfter) ==
    IF key \notin PresetNames
    THEN /\ ~ret.threw
         /\ ~ret.success
         /\ engAfter = eng
         /\ rAfter = r
    ELSE /\ ~ret.threw
         /\ ret.success
         /\ DOMAIN Presets_themes[key].wave = WaveKeys \ {"noiseSeed"}
         /\ \A field \in DOMAIN Presets_themes[key].wave :
                engAfter.config[field] = Presets_themes[key].wave[field]
         /\ DOMAIN Presets_themes[key].visual = DOMAIN r.config
         /\ rAfter.config = Presets_themes[key].visual
         /\ engAfter.currentCharacterSet = Presets_themes[key].characterSet
         /\ engAfter.config.noiseSeed = eng.config.noiseSeed
         /\ engAfter.noise = eng.noise
         /\ engAfter.time = eng.time

\* C24: Presets.apply(key, engine, renderer) with a key that is not one of the
\* six preset names returns false without raising and changes nothing; with a
\* preset name it returns true, sets the eight wave fields, seven visual fields
\* and the character set of that preset, and leaves noiseSeed, the noise field
\* and the animation clock unchanged.  The code raises for a key that
\* Object.prototype defines.
C24_ApplyPreset ==
    [][lastOp'.op = "applyPreset" =>
          AppliesAsDeclared(lastOp'.arg.presetKey, lastOp'.ret, waveEngine,
                            renderer, waveEngine', renderer')]_vars

\* the same for keys that are no members of Object.prototype
C24_ApplyPresetOwnKeys ==
    [][(lastOp'.op = "applyPreset"
        /\ lastOp'.arg.presetKey \notin ObjectPrototypeKeys) =>
          AppliesAsDeclared(lastOp'.arg.presetKey, lastOp'.ret, waveEngine,
                            renderer, waveEngine', renderer')]_vars


-----------------------------------------------------------------------------
(* Properties of the foam band *)

\* amplitude > 0 and foamThreshold <= 0.75, as JavaScript compares numbers
FoamCoversSurface(config) ==
    /\ \/ config.amplitude.k = "pinf"
       \/ config.amplitude.k = "fin" /\ config.amplitude.n > 0
    /\ \/ config.foamThreshold.k = "ninf"
       \/ /\ config.foamThreshold.k = "fin"
          /\ 4 * config.foamThreshold.n <= 3 * config.foamThreshold.d

\* C25: with amplitude > 0 and foamThreshold <= 0.75, selectCharacter never
\* returns a glyph from the surface band: every wave value whose normalized
\* height exceeds 0.75 is positive and exceeds foamThreshold, so it is rendered
\* from the foam band instead.  The default configuration, foamThreshold 0.7,
\* is such a configuration.
C25_NoSurfaceUnderLowThreshold ==
    (lastOp.op = "selectCharacter" /\ FoamCoversSurface(waveEngine.config))
        => /\ lastOp.ret.band # "surface"
           /\ (/\ IsFinite(NormalizedOf(lastOp.arg, waveEngine.config.amplitude))
               /\ StrictlyAbove(NormalizedOf(lastOp.arg, waveEngine.config.amplitude),
                                Fin(3, 4)))
                  => lastOp.ret.band = "foam"

\* the threshold on the surface band's lower edge, the amplitude changed, and a
\* sample above the edge: it is foam
C25_Witness ==
    /\ lastOp.op = "selectCharacter"
    /\ waveEngine.config.foamThreshold = Fin(3, 4)
    /\ waveEngine.config.amplitude = Num(2)
    /\ StrictlyAbove(NormalizedOf(lastOp.arg, waveEngine.config.amplitude), Fin(3, 4))
    /\ lastOp.ret.band = "foam"

\* the surface band is in use once the threshold lies above its lower edge
C25_SurfaceAboveEdge ==
    /\ lastOp.op = "selectCharacter"
    /\ waveEngine.config.foamThreshold = Fin(4, 5)
    /\ lastOp.ret.band = "surface"


-----------------------------------------------------------------------------
(* Properties of the notification *)

\* C26: every notification stays visible (carries the 'show' class) for 3
\* seconds from the showNotification call that displayed it, also when another
\* notification was shown less than 3 seconds earlier and its removal timer is
\* still pending.  The code lets the earlier timer remove 'show' from the later
\* notice.
C26_VisibleForThreeSeconds ==
    (notification.message # "" /\ notification.age < 3000) => notification.show

\* 'show' is removed before the 3 seconds are over only by the timer of an
\* earlier notice: the notice's own timer is then still pending
C26_RemovedEarlyByEarlierTimer ==
    [][(notification.show /\ ~notification'.show /\ notification.age < 3000)
          => (3000 - notification.age) \in notification'.timers]_vars

=============================================================================
